---- MODULE Spec2Model ----
(***************************************************************************)
(* The orchestration core of the multi-agent research pipeline:            *)
(* Orchestrator.run (the turn loop, the four boundary debates, the stop    *)
(* condition), Orchestrator._debate, the persistence of the trace and the  *)
(* insight report and their loaders (src/orchestrator/graph.py), the       *)
(* request handlers that call them (src/api/server.py) and the agent       *)
(* invocation (src/agents/base_agent.py).                                  *)
(*                                                                         *)
(* Spec       one run call, invocation by invocation, up to its return     *)
(* SpecDebate one _debate call on its own                                  *)
(* SpecStore  the writes of the two files, with a concurrent GET request   *)
(* SpecRuns   two run calls on the one shared Orchestrator, debate off,    *)
(*            the offline placeholder as provider                          *)
(* SpecAgent  the invocations of one agent under one environment           *)
(*                                                                         *)
(* Text is a sequence of tokens (a token stands for a run of characters    *)
(* that the code never splits: a word, a marker such as "[DONE]", a        *)
(* newline, a period).  Confidence is an integer number of hundredths.     *)
(***************************************************************************)
EXTENDS Integers, Sequences, FiniteSets, TLC

\* ---------------------------------------------------------------- bounds
MaxTurns == 2
MaxRounds == 2
MaxDebateRounds == 3

\* ------------------------------------------------------ program constants
MaxHypotheses == 5
SummaryLen == 300
FollowupLen == 200
DefaultThreshold == 80
RunFailedStatus == 503
NotFoundStatus == 404

\* ------------------------------------------------------------------ text
NL == "\n"
DOT == "."
SP == " "

Whitespace == {SP, NL}

\* str.lower() on one token
LowerTok(t) ==
  CASE t = "[DONE]" -> "[done]"
    [] t = "[Done]" -> "[done]"
    [] t = "[MORE]" -> "[more]"
    [] t = "True" -> "true"
    [] t = "TRUE" -> "true"
    [] OTHER -> t

Lower(s) == [i \in 1..Len(s) |-> LowerTok(s[i])]

\* str.upper() on a role name
Upper(role) ==
  CASE role = "reader" -> "READER"
    [] role = "critic" -> "CRITIC"
    [] role = "synthesizer" -> "SYNTHESIZER"
    [] role = "verifier" -> "VERIFIER"
    [] role = "followup" -> "FOLLOWUP"
    [] OTHER -> role

Contains(s, t) == \E i \in 1..Len(s) : s[i] = t

\* position of the first token t of s, 0 when s has none
FirstIndex(s, t) ==
  IF Contains(s, t)
  THEN CHOOSE i \in 1..Len(s) : s[i] = t /\ \A j \in 1..(i - 1) : s[j] # t
  ELSE 0

\* s[:n]
Take(s, n) == SubSeq(s, 1, IF Len(s) < n THEN Len(s) ELSE n)

\* s.split("\n", 1)[-1]
AfterFirstLine_Last(s) ==
  LET P == {i \in 1..Len(s) : s[i] = NL}
  IN  IF P = {} THEN s
      ELSE LET i == CHOOSE i \in P : \A j \in P : j <= i
           IN  SubSeq(s, i + 1, Len(s))

AfterFirstLine(s) ==
  LET i == FirstIndex(s, NL)
  IN  IF i = 0 THEN s ELSE SubSeq(s, i + 1, Len(s))

\* s.split(sep): the pieces between the separators, empty pieces kept
RECURSIVE Split(_, _)
Split(s, sep) ==
  LET i == FirstIndex(s, sep)
  IN  IF i = 0 THEN <<s>>
      ELSE <<SubSeq(s, 1, i - 1)>> \o Split(SubSeq(s, i + 1, Len(s)), sep)

\* s.strip()
RECURSIVE Strip(_)
Strip(s) ==
  IF s = <<>> THEN s
  ELSE IF Head(s) \in Whitespace THEN Strip(Tail(s))
  ELSE IF s[Len(s)] \in Whitespace THEN Strip(SubSeq(s, 1, Len(s) - 1))
  ELSE s

\* [f(x) for x in seq]
StripAll(pieces) == [i \in 1..Len(pieces) |-> Strip(pieces[i])]

NonEmpty(p) == p # <<>>

\* [h.strip() for h in content.split(".") if h.strip()][:5]
Hypotheses(content) ==
  Take(SelectSeq(StripAll(Split(content, DOT)), NonEmpty), MaxHypotheses)

\* -------------------------------------------------------------- messages
Roles == <<"reader", "critic", "synthesizer", "verifier", "followup">>

\* Message(role=self.config.role_name, content=..., citations=..., confidence=...)
Message(role, reply) ==
  [role |-> role, content |-> reply.content,
   citations |-> reply.citations, confidence |-> reply.confidence]

NoMessage == [role |-> "", content |-> <<>>, citations |-> <<>>, confidence |-> 0]

\* Turn(index=turn_index, messages=turn_messages)
Turn_OneBased(index, messages) == [index |-> index + 1, messages |-> messages]

Turn(index, messages) == [index |-> index, messages |-> messages]

\* What the provider may return to a main-pipeline invocation of each role.
MainReplies(role) ==
  CASE role = "reader" ->
         {[content |-> <<"methods", DOT, SP, "findings", DOT>>,
           citations |-> <<"ref:r1">>, confidence |-> 60]}
    [] role = "critic" ->
         {[content |-> <<"gap", DOT, NL, "bias", DOT>>,
           citations |-> <<"ref:c1">>, confidence |-> 55]}
    [] role = "synthesizer" ->
         {[content |-> <<SP, "h1", DOT, SP, "h2", SP, "x", DOT, DOT, SP, NL, DOT,
                         "h3", DOT, "h4", DOT, NL, "h5", DOT, "h6", DOT, SP>>,
           citations |-> <<"ref:s1", "ref:s2">>, confidence |-> 65]}
    [] role = "verifier" ->
         {[content |-> <<"weak", DOT>>,
           citations |-> <<"ref:v1">>, confidence |-> 50],
          [content |-> <<"consistent", DOT>>,
           citations |-> <<"ref:s1", "ref:v1">>, confidence |-> 80]}
    [] role = "followup" ->
         {[content |-> <<"next", "?">>,
           citations |-> <<"ref:s1">>, confidence |-> 58]}

\* What the provider may return inside a debate.
AsksReplies ==
  {[content |-> <<"1", DOT, SP, "why", "?">>,
    citations |-> <<"ref:q1">>, confidence |-> 70]}

AnswersReplies ==
  {[content |-> <<"1", DOT, SP, "because", DOT>>,
    citations |-> <<"ref:a1">>, confidence |-> 66]}

\* synthesis texts: with the completion marker (two letter cases), with the
\* continuation marker, with neither, and empty
TextDONE == <<"understood", SP, "[DONE]">>
TextDone == <<"[Done]", NL, "understood", DOT>>
TextMORE == <<"unclear", NL, "[MORE]">>
TextPlain == <<"unclear">>
TextEmpty == <<>>

AllSynthesisTexts == {TextDONE, TextDone, TextMORE, TextPlain, TextEmpty}

\* the synthesis texts one provider can answer with during one run
Providers ==
  {{TextDONE, TextMORE}, {TextDone, TextPlain}, {TextDone}, {TextPlain}, {TextEmpty}}

SynthesisReplies(texts) ==
  {[content |-> t, citations |-> <<>>, confidence |-> 75] : t \in texts}

\* the four role-to-role boundaries: upstream role A, downstream role B
Boundaries ==
  <<[a_role |-> "reader", b_role |-> "critic"],
    [a_role |-> "critic", b_role |-> "synthesizer"],
    [a_role |-> "synthesizer", b_role |-> "verifier"],
    [a_role |-> "verifier", b_role |-> "followup"]>>

\* f"[DEBATE {a_role}->{b_role} | {who.upper()} {kind} | Round {r}]\n": the
\* header line is one token (it holds no newline, no period and no marker)
\* followed by the newline
Header(a_role, b_role, who, kind, r) ==
  <<"[DEBATE " \o a_role \o "->" \o b_role \o " | " \o Upper(who) \o " " \o kind
    \o " | Round " \o ToString(r) \o "]", NL>>

\* msg.content = header + msg.content
Tagged_Confidence(msg, header) ==
  [msg EXCEPT !.content = header \o @, !.confidence = 0]

Tagged(msg, header) == [msg EXCEPT !.content = header \o msg.content]

\* --------------------------------------------------------------- prompts
\* the prompts run builds for the four downstream roles
ContextLen == 500

CriticInput(critic_handoff_text) ==
  <<"The Reader has provided the following analysis (after debate handoff):",
    NL, NL>> \o critic_handoff_text \o <<NL, NL, "Critically evaluate", DOT>>

SynthInput(reader_content, critic_to_synth_text) ==
  <<"--- Reader's Analysis ---", NL>> \o reader_content
  \o <<NL, NL, "--- Critic's Evaluation (after debate handoff) ---", NL>>
  \o critic_to_synth_text \o <<NL, NL, "Synthesize", DOT>>

VerifyInput(synth_to_verifier_text) ==
  <<"--- Synthesizer's Hypotheses (after debate handoff) ---", NL>>
  \o synth_to_verifier_text \o <<NL, NL, "Verify", DOT>>

FollowupInput(topic, reader, critic, synth, confidence, verifier) ==
  <<"--- Research Context ---", NL, "Topic: ">> \o topic
  \o <<NL, NL, "Reader's Findings:", NL>> \o Take(reader, ContextLen)
  \o <<"...", NL, NL, "Critic's Challenges (debated):", NL>>
  \o Take(critic, ContextLen)
  \o <<"...", NL, NL, "Synthesizer's Hypotheses (debated):", NL>>
  \o Take(synth, ContextLen)
  \o <<"...", NL, NL, "Verifier's Assessment (debated, Confidence: ",
       ToString(confidence), "):", NL>>
  \o Take(verifier, ContextLen)
  \o <<"...", NL, NL, "propose follow-up research questions", DOT>>

\* the prompts _debate builds in round r: b_q_prompt, a_ans_prompt (it quotes
\* b_q_msg.content, which already carries its round tag) and b_sum_prompt
BQPrompt(a_role, b_role, context) ==
  <<"As the " \o Upper(b_role) \o ", read the following " \o Upper(a_role)
    \o "'s output and ask up to 3 clarifying questions", DOT, NL, NL,
    "=== " \o Upper(a_role) \o " OUTPUT ===", NL>>
  \o context \o <<NL, NL, "Return ONLY a numbered list of questions", DOT>>

AAnsPrompt_NoQuestions(a_role, b_role, r, questions) ==
  <<"As the " \o Upper(a_role) \o ", answer the following questions", DOT, NL, NL,
    "=== QUESTIONS FROM " \o Upper(b_role) \o " (Round " \o ToString(r) \o ") ===",
    NL, NL, NL, "Provide numbered answers", DOT>>

AAnsPrompt(a_role, b_role, r, questions) ==
  <<"As the " \o Upper(a_role) \o ", answer the following questions", DOT, NL, NL,
    "=== QUESTIONS FROM " \o Upper(b_role) \o " (Round " \o ToString(r) \o ") ===",
    NL>>
  \o questions \o <<NL, NL, "Provide numbered answers", DOT>>

BSumPrompt(a_role, b_role, context, r, answers) ==
  <<"As the " \o Upper(b_role) \o ", produce a concise coherent summary", DOT,
    SP, "End the message with either ", "[DONE]", " or ", "[MORE]", DOT, NL, NL,
    "=== " \o Upper(a_role) \o " ORIGINAL OUTPUT ===", NL>>
  \o context
  \o <<NL, NL, "=== " \o Upper(a_role) \o " ANSWERS (Round " \o ToString(r)
       \o ") ===", NL>>
  \o answers \o <<NL>>

\* -------------------------------------------------------- serialization
\* datetime.utcnow(): a date, a time of day and a microsecond count
Datetime(date, time, microsecond) ==
  [date |-> date, time |-> time, microsecond |-> microsecond]

NoDatetime == Datetime("", "", 0)

\* the clock readings a run may start at
Microseconds == {0, 500}

Datetimes == {Datetime("2025-01-01", "10:00:00", us) : us \in Microseconds}

\* "%06d" % microsecond
Digits6(n) ==
  IF n < 10 THEN "00000" \o ToString(n)
  ELSE IF n < 100 THEN "0000" \o ToString(n)
  ELSE IF n < 1000 THEN "000" \o ToString(n)
  ELSE IF n < 10000 THEN "00" \o ToString(n)
  ELSE IF n < 100000 THEN "0" \o ToString(n)
  ELSE ToString(n)

\* str(datetime): "YYYY-MM-DD HH:MM:SS", then ".ffffff" unless microsecond is 0
DatetimeStr_NoFraction(d) == <<d.date, SP, d.time>>

DatetimeStr(d) ==
  IF d.microsecond = 0 THEN <<d.date, SP, d.time>>
  ELSE <<d.date, SP, d.time, DOT, Digits6(d.microsecond)>>

\* the datetime validation of the Trace model, on a string
ValidDatetimeStr(s) ==
  /\ Len(s) \in {3, 5}
  /\ s[2] \in {SP, "T"}
  /\ Len(s) = 5 => (s[4] = DOT /\ \E us \in Microseconds : Digits6(us) = s[5])

ParseDatetime(s) ==
  Datetime(s[1], s[3],
           IF Len(s) = 3 THEN 0
           ELSE CHOOSE us \in Microseconds : Digits6(us) = s[5])

\* the fields of the models, in declaration order (the order model_dump keeps)
TraceFields == <<"run_id", "topic", "created_at", "status", "turns">>

ReportFields ==
  <<"run_id", "topic", "summary", "hypotheses", "confidence", "citations">>

\* one piece of the JSON text of an object: a brace, or one member
Chunk(key, value) == [key |-> key, value |-> value]

\* the JSON value of a member: default=str is called for the datetime, the
\* only value of a dumped model that json cannot encode
JsonValue(key, value) == IF key = "created_at" THEN DatetimeStr(value) ELSE value

\* json.dump(obj, f, indent=2, default=str): the text written to the file
JsonDump_Unclosed(obj, fields) ==
  <<Chunk("{", <<>>)>>
  \o [i \in 1..Len(fields) |-> Chunk(fields[i], JsonValue(fields[i], obj[fields[i]]))]

JsonDump(obj, fields) ==
  <<Chunk("{", <<>>)>>
  \o [i \in 1..Len(fields) |-> Chunk(fields[i], JsonValue(fields[i], obj[fields[i]]))]
  \o <<Chunk("}", <<>>)>>

\* json.load(f): the object, or JSONDecodeError on a text that is not one
\* whole object (an empty file, a text cut before its closing brace)
JsonLoad(text) ==
  IF Len(text) >= 2 /\ text[1].key = "{" /\ text[Len(text)].key = "}"
  THEN LET members == 2..(Len(text) - 1)
       IN  [ok |-> TRUE,
            data |-> [k \in {text[i].key : i \in members} |->
                        text[CHOOSE i \in members : text[i].key = k].value]]
  ELSE [ok |-> FALSE, data |-> <<>>]

\* Field(ge=0.0, le=1.0) of Message.confidence and InsightReport.confidence
ValidConfidence(c) == c >= 0 /\ c <= 100

\* Field(ge=0) of Turn.index, and the validation of the turn's messages
ValidTurn(t) ==
  /\ t.index >= 0
  /\ \A i \in 1..Len(t.messages) : ValidConfidence(t.messages[i].confidence)

\* what a loader call or its parts end with
Returned(value) == [outcome |-> "returned", value |-> <<value>>, exception |-> ""]

ReturnedNone == [outcome |-> "none", value |-> <<>>, exception |-> ""]

Raised(exception) == [outcome |-> "raised", value |-> <<>>, exception |-> exception]

\* Trace(**data)
TraceFromData(data) ==
  IF /\ {"run_id", "topic", "created_at"} \subseteq DOMAIN data
     /\ ValidDatetimeStr(data.created_at)
     /\ "turns" \in DOMAIN data =>
          \A i \in 1..Len(data.turns) : ValidTurn(data.turns[i])
  THEN Returned([run_id |-> data.run_id,
                 topic |-> data.topic,
                 created_at |-> ParseDatetime(data.created_at),
                 status |-> IF "status" \in DOMAIN data THEN data.status
                            ELSE "running",
                 turns |-> IF "turns" \in DOMAIN data THEN data.turns ELSE <<>>])
  ELSE Raised("ValidationError")

\* InsightReport(**data)
ReportFromData(data) ==
  IF /\ {"run_id", "topic"} \subseteq DOMAIN data
     /\ "confidence" \in DOMAIN data => ValidConfidence(data.confidence)
  THEN Returned([run_id |-> data.run_id,
                 topic |-> data.topic,
                 summary |-> IF "summary" \in DOMAIN data THEN data.summary
                             ELSE <<>>,
                 hypotheses |-> IF "hypotheses" \in DOMAIN data
                                THEN data.hypotheses ELSE <<>>,
                 confidence |-> IF "confidence" \in DOMAIN data
                                THEN data.confidence ELSE 0,
                 citations |-> IF "citations" \in DOMAIN data
                               THEN data.citations ELSE <<>>])
  ELSE Raised("ValidationError")

\* a file of the store is <<>> when it does not exist and <<text>> when it
\* does; path.exists()
Exists(file) == file # <<>>

\* with path.open("r") as f: data = json.load(f); return Trace(**data)
ReadTrace(text) ==
  LET j == JsonLoad(text)
  IN  IF j.ok THEN TraceFromData(j.data) ELSE Raised("JSONDecodeError")

ReadReport(text) ==
  LET j == JsonLoad(text)
  IN  IF j.ok THEN ReportFromData(j.data) ELSE Raised("JSONDecodeError")

\* load_trace and load_report, when nothing writes the file during the call
LoadTrace_Running(file) ==
  IF ~Exists(file)
  THEN Returned([run_id |-> "", topic |-> "", created_at |-> NoDatetime,
                 status |-> "running", turns |-> <<>>])
  ELSE ReadTrace(file[1])

LoadTrace(file) == IF ~Exists(file) THEN ReturnedNone ELSE ReadTrace(file[1])

LoadReport(file) == IF ~Exists(file) THEN ReturnedNone ELSE ReadReport(file[1])

\* ----------------------------------------------------------------- state
VARIABLES
  pc,                  \* position of the call in run / _debate
  max_turns,           \* argument of run
  consensus_threshold, \* argument of run (hundredths)
  env,                 \* DEBATE_ENABLE, DEBATE_ROUNDS of the process
  provider,            \* synthesis texts the provider answers with
  debate_enabled,      \* local of run
  debate_rounds,       \* local of run
  trace,               \* the Trace object of the run
  turn_index,          \* loop variable of run
  turn_messages,       \* local of run
  main_msgs,           \* reader_msg, critic_msg, synth_msg, verifier_msg, followup_msg
  handoffs,            \* critic_handoff_text, critic_to_synth_text, ...
  debate,              \* the frame of the running _debate call
  debate_result,       \* what the last _debate call returned
  store,               \* DATA_ROOT/run_id/{trace,report}.json
  calls,               \* history: per turn, its agent invocations in order of return
  response,            \* what start_run answers to POST /run
  loader,              \* a GET /trace or GET /insight request being served
  self_reader,         \* Orchestrator.reader: the configuration of the ReaderAgent
  runs,                \* the run calls in progress on one shared Orchestrator
  agent,               \* the invocations of one agent under one environment
  data_root,           \* DATA_ROOT: the directories of the runs, by run_id
  client,              \* one LLMClient.generate call: its loop counters and requests
  stream               \* one event_generator of GET /graph/live/{run_id}/stream

vars ==
  <<pc, max_turns, consensus_threshold, env, provider, debate_enabled,
    debate_rounds, trace, turn_index, turn_messages, main_msgs, handoffs,
    debate, debate_result, store, calls, response, loader, self_reader, runs,
    agent, data_root, client, stream>>

\* the locals of the run call and its environment
run_locals ==
  <<max_turns, consensus_threshold, env, provider, debate_enabled, debate_rounds,
    turn_index, turn_messages, main_msgs, handoffs, debate, debate_result, calls>>

\* the shared Orchestrator with several run calls, and the single agent
shared == <<self_reader, runs, agent, data_root, client, stream>>

\* the state outside the run call and its caller
aux == <<loader, shared>>

RunId == "run-1"
Topic == "topic"

NoTrace ==
  [run_id |-> "", topic |-> "", created_at |-> NoDatetime, status |-> "none",
   turns |-> <<>>]

\* Trace(run_id=run_id, topic=topic, created_at=..., status="running", turns=[])
NewTrace(created_at) ==
  [run_id |-> RunId, topic |-> Topic, created_at |-> created_at,
   status |-> "running", turns |-> <<>>]

\* trace.status = "complete"
Complete_StillRunning(t) == t

Complete(t) == [t EXCEPT !.status = "complete"]

\* what a request handler ends with: the response body, or an HTTPException
NoResponse == [kind |-> "none", status_code |-> 0, detail |-> ""]

Body(detail) == [kind |-> "body", status_code |-> 0, detail |-> detail]

HTTPException(status_code, detail) ==
  [kind |-> "HTTPException", status_code |-> status_code, detail |-> detail]

\* not modelled in this call: the reader's configuration, other runs, the
\* provider's environment
NoReader == [retriever |-> "", bm25_k |-> 0, knowledge_base |-> <<>>]

NoAgent == <<>>

\* uuid.uuid4(): the identifiers a run_id can be
Uuids == {"uuid-a", "uuid-b"}

\* DATA_ROOT with no run directory: no file under any run_id
NoFiles == [trace |-> <<>>, report |-> <<>>]

EmptyRoot == [id \in Uuids |-> NoFiles]

\* no generate call
NoClient == <<>>

\* no stream
NoStream == <<>>

\* no request
NoLoader ==
  [pc |-> "idle", route |-> "", run_id |-> "", result |-> ReturnedNone,
   response |-> NoResponse]

NoDebate ==
  [boundary |-> 0, a_role |-> "", b_role |-> "", context |-> <<>>,
   max_rounds |-> 0, r |-> 0, debate_messages |-> <<>>, latest_summary |-> <<>>]

NoResult == [returned |-> FALSE, handoff_text |-> <<>>, debate_messages |-> <<>>]

Thresholds == {0, DefaultThreshold, 101}

\* the values run's arguments and the environment are drawn from; a provider
\* that varies its synthesis text is followed for one turn, a provider with
\* one synthesis text for every turn budget
Configs ==
  {c \in [max_turns : 0..MaxTurns, consensus_threshold : Thresholds,
          DEBATE_ENABLE : {"true", "false"}, DEBATE_ROUNDS : (-1)..MaxRounds,
          provider : Providers] :
     Cardinality(c.provider) > 1 => c.max_turns <= 1}

Init ==
  /\ pc = "start"
  /\ \E c \in Configs :
       /\ max_turns = c.max_turns
       /\ consensus_threshold = c.consensus_threshold
       /\ env = [DEBATE_ENABLE |-> c.DEBATE_ENABLE, DEBATE_ROUNDS |-> c.DEBATE_ROUNDS]
       /\ provider = c.provider
  /\ debate_enabled = FALSE
  /\ debate_rounds = 0
  /\ trace = NoTrace
  /\ turn_index = 0
  /\ turn_messages = <<>>
  /\ main_msgs = [role \in {Roles[i] : i \in 1..5} |-> NoMessage]
  /\ handoffs = [b \in 1..4 |-> <<>>]
  /\ debate = NoDebate
  /\ debate_result = NoResult
  /\ store = [trace |-> <<>>, report |-> <<>>]
  /\ calls = <<<<>>>>
  /\ response = NoResponse
  /\ loader = NoLoader
  /\ self_reader = NoReader
  /\ runs = <<>>
  /\ agent = NoAgent
  /\ data_root = EmptyRoot
  /\ client = NoClient
  /\ stream = NoStream

\* ------------------------------------------------------------- _debate
\* "[done]" in b_sum_msg.content.lower()
ContainsDone_CaseSensitive(content) == Contains(content, "[DONE]")

ContainsDone(content) == Contains(Lower(content), "[done]")

\* for r in range(1, max_rounds + 1): is there a round after round r
RoundsLeft_OneMore(r, max_rounds) == r < max_rounds + 1

RoundsLeft(r, max_rounds) == r < max_rounds

\* latest_summary.split("\n", 1)[-1] if latest_summary else context
HandoffText_Whole(latest_summary, context) ==
  IF latest_summary # <<>> THEN latest_summary ELSE context

HandoffText(latest_summary, context) ==
  IF latest_summary # <<>> THEN AfterFirstLine(latest_summary) ELSE context

\* turn_messages.extend(debate_msgs)
Extend_Front(tm, msgs) == msgs \o tm

Extend(tm, msgs) == tm \o msgs

\* handoff or upstream_msg.content
OrElse_Raw(handoff, content) == content

OrElse(handoff, content) == IF handoff # <<>> THEN handoff ELSE content

\* return handoff_text, debate_messages: the frame f returns to its caller, which
\* (in run) extends the turn's messages and picks the text for the next stage
FinishDebate_HandoffOnly(f, tm) ==
  LET handoff_text == HandoffText(f.latest_summary, f.context)
  IN  /\ debate' = f
      /\ debate_result' = [returned |-> TRUE, handoff_text |-> handoff_text,
                           debate_messages |-> f.debate_messages]
      /\ turn_messages' = tm
      /\ IF f.boundary = 0
         THEN /\ pc' = "debate_returned"
              /\ UNCHANGED handoffs
         ELSE /\ handoffs' = [handoffs EXCEPT
                                ![f.boundary] = OrElse(handoff_text, f.context)]
              /\ pc' = Roles[f.boundary + 1]

FinishDebate(f, tm) ==
  LET handoff_text == HandoffText(f.latest_summary, f.context)
  IN  /\ debate' = f
      /\ debate_result' = [returned |-> TRUE, handoff_text |-> handoff_text,
                           debate_messages |-> f.debate_messages]
      /\ IF f.boundary = 0
         THEN /\ pc' = "debate_returned"
              /\ turn_messages' = tm
              /\ UNCHANGED handoffs
         ELSE /\ turn_messages' = Extend(tm, f.debate_messages)
              /\ handoffs' = [handoffs EXCEPT
                                ![f.boundary] = OrElse(handoff_text, f.context)]
              /\ pc' = Roles[f.boundary + 1]

\* the call of _debate: no round runs when max_rounds < 1
EnterDebate_Skip(f, tm) == FinishDebate(f, tm)

EnterDebate(f, tm) ==
  IF f.max_rounds >= 1
  THEN /\ debate' = [f EXCEPT !.r = 1]
       /\ pc' = "debate_ask"
       /\ turn_messages' = tm
       /\ handoffs' = IF f.boundary = 0 THEN handoffs
                      ELSE [handoffs EXCEPT ![f.boundary] = f.context]
       /\ UNCHANGED debate_result
  ELSE FinishDebate(f, tm)

Call(stage, kind, round, prompt, msg) ==
  [turn |-> turn_index, stage |-> stage, kind |-> kind, round |-> round,
   prompt |-> prompt, msg |-> msg]

\* the history with one more returned invocation of the current turn
Logged(c) == [calls EXCEPT ![Len(calls)] = Append(@, c)]

\* B asks
DebateAsk ==
  /\ pc = "debate_ask"
  /\ \E reply \in AsksReplies :
       LET b_q_prompt == BQPrompt(debate.a_role, debate.b_role, debate.context)
           raw == Message(debate.b_role, reply)
           b_q_msg == Tagged(raw, Header(debate.a_role, debate.b_role,
                                         debate.b_role, "asks", debate.r))
       IN  /\ debate' = [debate EXCEPT !.debate_messages = Append(@, b_q_msg)]
           /\ calls' = Logged(Call(2 * debate.boundary, "asks", debate.r,
                                   b_q_prompt, raw))
  /\ pc' = "debate_answer"
  /\ UNCHANGED <<aux, response, max_turns, consensus_threshold, env, provider,
                 debate_enabled,
                 debate_rounds, trace, turn_index, turn_messages, main_msgs,
                 handoffs, debate_result, store>>

\* A answers
DebateAnswer ==
  /\ pc = "debate_answer"
  /\ \E reply \in AnswersReplies :
       LET b_q_msg == debate.debate_messages[Len(debate.debate_messages)]
           a_ans_prompt == AAnsPrompt(debate.a_role, debate.b_role, debate.r,
                                      b_q_msg.content)
           raw == Message(debate.a_role, reply)
           a_ans_msg == Tagged(raw, Header(debate.a_role, debate.b_role,
                                           debate.a_role, "answers", debate.r))
       IN  /\ debate' = [debate EXCEPT !.debate_messages = Append(@, a_ans_msg)]
           /\ calls' = Logged(Call(2 * debate.boundary, "answers", debate.r,
                                   a_ans_prompt, raw))
  /\ pc' = "debate_synthesis"
  /\ UNCHANGED <<aux, response, max_turns, consensus_threshold, env, provider,
                 debate_enabled,
                 debate_rounds, trace, turn_index, turn_messages, main_msgs,
                 handoffs, debate_result, store>>

\* B synthesizes, then the readiness check, then the next round or the return
DebateSynthesis ==
  /\ pc = "debate_synthesis"
  /\ \E reply \in SynthesisReplies(provider) :
       LET a_ans_msg == debate.debate_messages[Len(debate.debate_messages)]
           b_sum_prompt == BSumPrompt(debate.a_role, debate.b_role,
                                      debate.context, debate.r, a_ans_msg.content)
           raw == Message(debate.b_role, reply)
           b_sum_msg == Tagged(raw, Header(debate.a_role, debate.b_role,
                                           debate.b_role, "synthesis", debate.r))
           f == [debate EXCEPT !.debate_messages = Append(@, b_sum_msg),
                               !.latest_summary = b_sum_msg.content]
       IN  /\ calls' = Logged(Call(2 * debate.boundary, "synthesis", debate.r,
                                   b_sum_prompt, raw))
           /\ IF ContainsDone(b_sum_msg.content) \/ ~RoundsLeft(f.r, f.max_rounds)
              THEN FinishDebate(f, turn_messages)
              ELSE /\ debate' = [f EXCEPT !.r = @ + 1]
                   /\ pc' = "debate_ask"
                   /\ UNCHANGED <<turn_messages, handoffs, debate_result>>
  /\ UNCHANGED <<aux, response, max_turns, consensus_threshold, env, provider,
                 debate_enabled,
                 debate_rounds, trace, turn_index, main_msgs, store>>

\* ----------------------------------------------------------------- run
\* max(0, int(os.getenv("DEBATE_ROUNDS", "1")))
DebateRounds(e) == IF e.DEBATE_ROUNDS < 0 THEN 0 ELSE e.DEBATE_ROUNDS

\* (os.getenv("DEBATE_ENABLE", "true").lower() == "true") and debate_rounds > 0
DebateEnabled_IgnoreFlag(e) == DebateRounds(e) > 0

DebateEnabled(e) == LowerTok(e.DEBATE_ENABLE) = "true" /\ DebateRounds(e) > 0

\* verifier_msg.confidence >= consensus_threshold
StopCondition_Strict(confidence, threshold) == confidence > threshold

StopCondition(confidence, threshold) == confidence >= threshold

\* run up to the first agent invocation: the Trace object, the debate settings,
\* and the loop entry (range(max_turns) is empty when max_turns < 1)
StartRun ==
  /\ pc = "start"
  /\ debate_rounds' = DebateRounds(env)
  /\ debate_enabled' = DebateEnabled(env)
  /\ turn_index' = 0
  /\ turn_messages' = <<>>
  /\ \E created_at \in Datetimes :
       IF max_turns >= 1
       THEN /\ trace' = NewTrace(created_at)
            /\ pc' = "reader"
       ELSE /\ trace' = Complete(NewTrace(created_at))
            /\ pc' = "persist_trace"
  /\ UNCHANGED <<aux, response, max_turns, consensus_threshold, env, provider,
                 main_msgs,
                 handoffs, debate, debate_result, store, calls>>

\* the prompt of the main-pipeline invocation of stage k: the topic for the
\* reader, critic_input, synth_input, verify_input and followup_input
StageInput(k) ==
  CASE k = 1 -> <<trace.topic>>
    [] k = 2 -> CriticInput(handoffs[1])
    [] k = 3 -> SynthInput(main_msgs["reader"].content, handoffs[2])
    [] k = 4 -> VerifyInput(handoffs[3])
    [] k = 5 -> FollowupInput(<<trace.topic>>, main_msgs["reader"].content,
                              handoffs[2], handoffs[3],
                              main_msgs["verifier"].confidence, handoffs[4])

\* stage k of the turn (k = 1..4): the role's main-pipeline invocation, the
\* append to turn_messages, and the boundary that follows it
MainSend(k) ==
  /\ pc = Roles[k]
  /\ \E reply \in MainReplies(Roles[k]) :
       LET msg == Message(Roles[k], reply)
           tm == Append(turn_messages, msg)
       IN  /\ main_msgs' = [main_msgs EXCEPT ![Roles[k]] = msg]
           /\ calls' = Logged(Call(2 * k - 1, "main", 0, StageInput(k), msg))
           /\ IF debate_enabled
              THEN EnterDebate(
                     [boundary |-> k, a_role |-> Boundaries[k].a_role,
                      b_role |-> Boundaries[k].b_role, context |-> msg.content,
                      max_rounds |-> debate_rounds, r |-> 0,
                      debate_messages |-> <<>>, latest_summary |-> <<>>], tm)
              ELSE /\ turn_messages' = tm
                   /\ handoffs' = [handoffs EXCEPT ![k] = msg.content]
                   /\ pc' = Roles[k + 1]
                   /\ UNCHANGED <<debate, debate_result>>
  /\ UNCHANGED <<aux, response, max_turns, consensus_threshold, env, provider,
                 debate_enabled,
                 debate_rounds, trace, turn_index, store>>

ReaderSend == MainSend(1)

CriticSend == MainSend(2)

SynthesizerSend == MainSend(3)

VerifierSend == MainSend(4)

\* the planner's invocation, the turn's append to the trace, the stop condition,
\* and either the next pass of the loop or the loop's end (status = "complete")
FollowupSend ==
  /\ pc = "followup"
  /\ \E reply \in MainReplies("followup") :
       LET msg == Message("followup", reply)
           tm == Append(turn_messages, msg)
           turns == Append(trace.turns, Turn(turn_index, tm))
       IN  /\ main_msgs' = [main_msgs EXCEPT !["followup"] = msg]
           /\ IF \/ StopCondition(main_msgs["verifier"].confidence, consensus_threshold)
                 \/ turn_index + 1 >= max_turns
              THEN /\ trace' = Complete([trace EXCEPT !.turns = turns])
                   /\ pc' = "persist_trace"
                   /\ turn_messages' = tm
                   /\ calls' = Logged(Call(9, "main", 0, StageInput(5), msg))
                   /\ UNCHANGED turn_index
              ELSE /\ trace' = [trace EXCEPT !.turns = turns]
                   /\ pc' = "reader"
                   /\ turn_index' = turn_index + 1
                   /\ turn_messages' = <<>>
                   /\ calls' = Append(Logged(Call(9, "main", 0, StageInput(5), msg)),
                                       <<>>)
  /\ UNCHANGED <<aux, response, max_turns, consensus_threshold, env, provider,
                 debate_enabled,
                 debate_rounds, handoffs, debate, debate_result, store>>

\* --------------------------------------------------------- persistence
\* json.dump(trace.model_dump(), f)
PersistTrace ==
  /\ pc = "persist_trace"
  /\ store' = [store EXCEPT !.trace = <<JsonDump(trace, TraceFields)>>]
  /\ pc' = "persist_report"
  /\ UNCHANGED <<aux, response, max_turns, consensus_threshold, env, provider,
                 debate_enabled,
                 debate_rounds, trace, turn_index, turn_messages, main_msgs,
                 handoffs, debate, debate_result, calls>>

\* next((m for m in messages if m.role == role), None)
FirstWithRole(messages, role) ==
  LET Test(m) == m.role = role
      S == SelectSeq(messages, Test)
  IN  IF S = <<>> THEN <<>> ELSE <<Head(S)>>

\* the InsightReport built by _persist_report from the last turn
BuildReport(t) ==
  LET last_turn == t.turns[Len(t.turns)]
      synth == FirstWithRole(last_turn.messages, "synthesizer")
      verifier == FirstWithRole(last_turn.messages, "verifier")
      followup == FirstWithRole(last_turn.messages, "followup")
  IN  [run_id |-> t.run_id,
       topic |-> t.topic,
       summary |->
         (IF synth # <<>> THEN Take(synth[1].content, SummaryLen) ELSE <<>>)
         \o (IF followup # <<>>
             THEN <<NL, NL, "Follow-up Research Directions:", NL>>
                  \o Take(followup[1].content, FollowupLen) \o <<"...">>
             ELSE <<>>),
       hypotheses |-> IF synth # <<>> THEN Hypotheses(synth[1].content) ELSE <<>>,
       confidence |-> IF verifier # <<>> THEN verifier[1].confidence ELSE 0,
       citations |->
         (IF synth # <<>> THEN synth[1].citations ELSE <<>>)
         \o (IF verifier # <<>> THEN verifier[1].citations ELSE <<>>)
         \o (IF followup # <<>> THEN followup[1].citations ELSE <<>>)]

\* except Exception as exc: raise HTTPException(status_code=503, ...)
RunFailed_AsNotFound(exc) == HTTPException(NotFoundStatus, "Run failed: " \o exc)

RunFailed(exc) == HTTPException(RunFailedStatus, "Run failed: " \o exc)

\* _persist_report and the return of run to start_run; trace.turns[-1] raises
\* IndexError when the trace has no turn
PersistReport ==
  /\ pc = "persist_report"
  /\ IF trace.turns = <<>>
     THEN /\ pc' = "raised"
          /\ response' = RunFailed("list index out of range")
          /\ UNCHANGED store
     ELSE /\ store' = [store EXCEPT
                         !.report = <<JsonDump(BuildReport(trace), ReportFields)>>]
          /\ pc' = "returned"
          /\ response' = Body(trace.run_id)
  /\ UNCHANGED <<aux, max_turns, consensus_threshold, env, provider, debate_enabled,
                 debate_rounds, trace, turn_index, turn_messages, main_msgs,
                 handoffs, debate, debate_result, calls>>

\* the positions of run at which an agent invocation is in progress
Invocations ==
  {Roles[k] : k \in 1..5} \cup {"debate_ask", "debate_answer", "debate_synthesis"}

\* the invocation in progress raises: nothing in run or _debate catches it,
\* so it leaves run and start_run turns it into its error response
AgentRaises ==
  /\ pc \in Invocations
  /\ pc' = "raised"
  /\ response' = RunFailed("provider")
  /\ UNCHANGED <<aux, max_turns, consensus_threshold, env, provider,
                 debate_enabled, debate_rounds, trace, turn_index, turn_messages,
                 main_msgs, handoffs, debate, debate_result, store, calls>>

Next ==
  \/ StartRun
  \/ ReaderSend
  \/ CriticSend
  \/ SynthesizerSend
  \/ VerifierSend
  \/ FollowupSend
  \/ DebateAsk
  \/ DebateAnswer
  \/ DebateSynthesis
  \/ AgentRaises
  \/ PersistTrace
  \/ PersistReport

Spec == Init /\ [][Next]_vars

\* ------------------------------------------- _debate called on its own
Contexts == {<<>>, <<"finding">>, <<"line1", NL, "line2", SP, "[DONE]">>}

InitDebate ==
  /\ pc = "call_debate"
  /\ max_turns = 0
  /\ consensus_threshold = DefaultThreshold
  /\ env = [DEBATE_ENABLE |-> "true", DEBATE_ROUNDS |-> 1]
  /\ provider = AllSynthesisTexts
  /\ debate_enabled = FALSE
  /\ debate_rounds = 0
  /\ trace = NoTrace
  /\ turn_index = 0
  /\ turn_messages = <<>>
  /\ main_msgs = [role \in {Roles[i] : i \in 1..5} |-> NoMessage]
  /\ handoffs = [b \in 1..4 |-> <<>>]
  /\ \E b \in 1..4, context \in Contexts, n \in 0..MaxDebateRounds :
       debate = [boundary |-> 0, a_role |-> Boundaries[b].a_role,
                 b_role |-> Boundaries[b].b_role, context |-> context,
                 max_rounds |-> n, r |-> 0,
                 debate_messages |-> <<>>, latest_summary |-> <<>>]
  /\ debate_result = NoResult
  /\ store = [trace |-> <<>>, report |-> <<>>]
  /\ calls = <<<<>>>>
  /\ response = NoResponse
  /\ loader = NoLoader
  /\ self_reader = NoReader
  /\ runs = <<>>
  /\ agent = NoAgent
  /\ data_root = EmptyRoot
  /\ client = NoClient
  /\ stream = NoStream

\* self._debate(agent_a, agent_b, context, a_role, b_role, max_rounds)
DebateCall ==
  /\ pc = "call_debate"
  /\ EnterDebate(debate, turn_messages)
  /\ UNCHANGED <<aux, response, max_turns, consensus_threshold, env, provider,
                 debate_enabled,
                 debate_rounds, trace, turn_index, main_msgs, store, calls>>

NextDebate ==
  \/ DebateCall
  \/ DebateAsk
  \/ DebateAnswer
  \/ DebateSynthesis

SpecDebate == InitDebate /\ [][NextDebate]_vars

\* --------------------------------- the store, with a concurrent request
UnknownRunId == "run-0"

\* one turn of a run without debate
FiveMessages(verifier_reply) ==
  [k \in 1..5 |->
     Message(Roles[k],
             IF k = 4 THEN verifier_reply
             ELSE CHOOSE reply \in MainReplies(Roles[k]) : TRUE)]

\* the traces run can hold when it leaves its loop: one turn of five messages,
\* or no turn at all (max_turns = 0)
StoreTraces ==
  {Complete([NewTrace(created_at) EXCEPT
               !.turns = <<Turn(0, FiveMessages(reply))>>]) :
     created_at \in Datetimes, reply \in MainReplies("verifier")}
  \cup {Complete(NewTrace(created_at)) : created_at \in Datetimes}

InitStore ==
  /\ pc = "persist_trace"
  /\ trace \in StoreTraces
  /\ max_turns = Len(trace.turns)
  /\ consensus_threshold = DefaultThreshold
  /\ env = [DEBATE_ENABLE |-> "false", DEBATE_ROUNDS |-> 1]
  /\ provider = AllSynthesisTexts
  /\ debate_enabled = FALSE
  /\ debate_rounds = 1
  /\ turn_index = 0
  /\ turn_messages = <<>>
  /\ main_msgs = [role \in {Roles[i] : i \in 1..5} |-> NoMessage]
  /\ handoffs = [b \in 1..4 |-> <<>>]
  /\ debate = NoDebate
  /\ debate_result = NoResult
  /\ store = [trace |-> <<>>, report |-> <<>>]
  /\ calls = <<<<>>>>
  /\ response = NoResponse
  /\ loader = NoLoader
  /\ self_reader = NoReader
  /\ runs = <<>>
  /\ agent = NoAgent
  /\ data_root = EmptyRoot
  /\ client = NoClient
  /\ stream = NoStream

\* run_dir.mkdir(...); trace_path.open("w"): the file exists and is empty
OpenTrace ==
  /\ pc = "persist_trace"
  /\ store' = [store EXCEPT !.trace = <<<<>>>>]
  /\ pc' = "write_trace"
  /\ UNCHANGED <<run_locals, trace, response, aux>>

\* json.dump writes the text piece by piece; the file is complete, and
\* _persist_trace returns, with the last piece
WriteTrace ==
  /\ pc = "write_trace"
  /\ LET text == JsonDump(trace, TraceFields)
         written == Len(store.trace[1])
     IN  /\ store' = [store EXCEPT !.trace = <<Take(text, written + 1)>>]
         /\ pc' = IF written + 1 = Len(text) THEN "persist_report"
                  ELSE "write_trace"
  /\ UNCHANGED <<run_locals, trace, response, aux>>

\* _persist_report up to report_path.open("w"): the report is built (an
\* IndexError leaves run when the trace has no turn), the file exists, empty
OpenReport ==
  /\ pc = "persist_report"
  /\ IF trace.turns = <<>>
     THEN /\ pc' = "raised"
          /\ response' = RunFailed("list index out of range")
          /\ UNCHANGED store
     ELSE /\ store' = [store EXCEPT !.report = <<<<>>>>]
          /\ pc' = "write_report"
          /\ UNCHANGED response
  /\ UNCHANGED <<run_locals, trace, aux>>

\* json.dump of the report; with the last piece _persist_report returns, run
\* returns run_id and start_run answers
WriteReport ==
  /\ pc = "write_report"
  /\ LET text == JsonDump(BuildReport(trace), ReportFields)
         written == Len(store.report[1])
     IN  /\ store' = [store EXCEPT !.report = <<Take(text, written + 1)>>]
         /\ IF written + 1 = Len(text)
            THEN /\ pc' = "returned"
                 /\ response' = Body(trace.run_id)
            ELSE /\ pc' = "write_report"
                 /\ UNCHANGED response
  /\ UNCHANGED <<run_locals, trace, aux>>

\* DATA_ROOT / run_id / "trace.json" or "report.json": the store holds the
\* directory of the one run
File(run_id, route) ==
  IF run_id # trace.run_id THEN <<>>
  ELSE IF route = "trace" THEN store.trace
  ELSE store.report

\* if not trace: raise HTTPException(status_code=404, detail="Run not found");
\* return trace.  An exception of the loader leaves the handler as it is.
Respond_NoCheck(result) ==
  IF result.outcome = "raised" THEN [NoResponse EXCEPT !.kind = "unhandled"]
  ELSE Body("artifact")

Respond(result) ==
  IF result.outcome = "none" THEN HTTPException(NotFoundStatus, "Run not found")
  ELSE IF result.outcome = "raised" THEN [NoResponse EXCEPT !.kind = "unhandled"]
  ELSE Body("artifact")

\* a request arrives; the loader's path.exists() check, and its return of None
GetExists ==
  /\ loader.pc \in {"idle", "done"}
  /\ \E route \in {"trace", "insight"}, run_id \in {trace.run_id, UnknownRunId} :
       IF Exists(File(run_id, route))
       THEN loader' = [pc |-> "reading", route |-> route, run_id |-> run_id,
                       result |-> ReturnedNone, response |-> NoResponse]
       ELSE loader' = [pc |-> "done", route |-> route, run_id |-> run_id,
                       result |-> ReturnedNone,
                       response |-> Respond(ReturnedNone)]
  /\ UNCHANGED <<run_locals, pc, trace, store, response, shared>>

\* the loader opens and reads the file it found, and the handler answers
GetRead ==
  /\ loader.pc = "reading"
  /\ LET text == File(loader.run_id, loader.route)[1]
         result == IF loader.route = "trace" THEN ReadTrace(text)
                   ELSE ReadReport(text)
     IN  loader' = [loader EXCEPT !.pc = "done", !.result = result,
                                  !.response = Respond(result)]
  /\ UNCHANGED <<run_locals, pc, trace, store, response, shared>>

NextStore ==
  \/ OpenTrace
  \/ WriteTrace
  \/ OpenReport
  \/ WriteReport
  \/ GetExists
  \/ GetRead

SpecStore == InitStore /\ [][NextStore]_vars

\* ------------------------- several run calls on one shared Orchestrator
\* the run calls: the server's single module-level Orchestrator serves every
\* POST /run, and two requests can be in progress at once
RunIds == {1, 2}

\* the PDF chunks load_and_chunk_pdfs finds in a directory
PdfChunks(dir) ==
  CASE dir = "files" -> <<"f1", "f2">>
    [] dir = "docs" -> <<"d1">>
    [] OTHER -> <<>>

\* BM25Retriever(chunks) if chunks else None: a retriever is named by the
\* directory it indexes, "" is None
RetrieverOf(dir) == IF PdfChunks(dir) # <<>> THEN dir ELSE ""

\* the knowledge base file at a path: its entries, <<>> when the file does
\* not exist or cannot be read
KnowledgeFile(path) ==
  IF path = "kb1.json"
  THEN <<[source |-> "a.pdf", title |-> "A"]>>
  ELSE IF path = "kb4.json"
  THEN <<[source |-> "a.pdf", title |-> "A"], [source |-> "b.pdf", title |-> ""],
         [source |-> "c.pdf", title |-> "C"], [source |-> "d.pdf", title |-> "D"]>>
  ELSE <<>>

\* ReaderAgent(retriever, bm25_k, knowledge_base_path): the configuration of
\* the agent
ReaderAgent(retriever, bm25_k, knowledge_base_path) ==
  [retriever |-> retriever,
   bm25_k |-> IF bm25_k < 1 THEN 1 ELSE bm25_k,
   knowledge_base |-> KnowledgeFile(knowledge_base_path)]

\* _init_reader(override_retriever, bm25_k): the ReaderAgent it returns
InitReader(override_retriever, bm25_k, e) ==
  ReaderAgent(IF override_retriever # "" THEN override_retriever
              ELSE IF LowerTok(e.ENABLE_BM25) \in {"true", "auto"}
                   THEN RetrieverOf(e.BM25_FILES_DIR)
                   ELSE "",
              bm25_k, e.KNOWLEDGE_BASE_PATH)

\* self._init_reader() in __init__
DefaultK == 4

InitialReader(e) == InitReader("", DefaultK, e)

\* the per-run retrieval override of run: the ReaderAgent configuration that
\* self.reader holds after it
Override(current, args, e) ==
  IF args.enable_bm25 = "none" THEN current
  ELSE IF args.enable_bm25 = "true"
       THEN InitReader(RetrieverOf(IF args.files_dir # "" THEN args.files_dir
                                   ELSE e.BM25_FILES_DIR),
                       args.bm25_k, e)
       ELSE InitReader("", args.bm25_k, e)

\* "sep".join(parts)
RECURSIVE Join(_, _)
Join(parts, sep) ==
  IF parts = <<>> THEN <<>>
  ELSE IF Len(parts) = 1 THEN parts[1]
  ELSE parts[1] \o sep \o Join(Tail(parts), sep)

\* simple_tokenize(text): the lower-cased words of more than one character
Words(text) ==
  {LowerTok(text[i]) : i \in 1..Len(text)} \ {NL, SP, DOT, "?"}

\* the words of a chunk
ChunkTerms(chunk) ==
  CASE chunk = "f1" -> {"topic", "other"}
    [] chunk = "f2" -> {"topic", "other", "methods"}
    [] chunk = "d1" -> {"methods"}
    [] OTHER -> {}

\* bm25.get_scores(q_tokens): a chunk scores by the query words it holds
Score(chunk, words) == Cardinality(ChunkTerms(chunk) \cap words)

\* sorted(enumerate(scores), key=score, reverse=True): best first, chunks of
\* equal score in their original order
RECURSIVE SortedByScore(_, _)
SortedByScore(chunks, words) ==
  IF chunks = <<>> THEN <<>>
  ELSE LET i == CHOOSE i \in 1..Len(chunks) :
                  /\ \A j \in 1..Len(chunks) :
                       Score(chunks[j], words) <= Score(chunks[i], words)
                  /\ \A j \in 1..(i - 1) :
                       Score(chunks[j], words) < Score(chunks[i], words)
       IN  <<chunks[i]>>
           \o SortedByScore(SubSeq(chunks, 1, i - 1)
                            \o SubSeq(chunks, i + 1, Len(chunks)), words)

\* BM25Retriever.get_relevant_documents(query, k)
GetRelevantDocuments_Unsorted(retriever, query, k) ==
  IF Words(query) = {} THEN <<>> ELSE Take(PdfChunks(retriever), k)

\* BM25Retriever.get_relevant_documents(query, k): nothing for a query without
\* words; else those of the k best that score, or the k best if none scores
GetRelevantDocuments(retriever, query, k) ==
  LET words == Words(query)
      best == Take(SortedByScore(PdfChunks(retriever), words), k)
      top == SelectSeq(best, LAMBDA c : Score(c, words) > 0)
  IN  IF words = {} THEN <<>>
      ELSE IF top = <<>> THEN best
      ELSE top

\* the knowledge entries quoted in a prompt
KbLimit == 3

\* ReaderAgent._format_knowledge_base
FormatKnowledgeBase(knowledge_base) ==
  LET shown == Take(knowledge_base, KbLimit)
  IN  Join([i \in 1..Len(shown) |->
              <<"Document " \o ToString(i) \o ": " \o shown[i].source>>
              \o (IF shown[i].title # ""
                  THEN <<NL, "  Title: " \o shown[i].title>> ELSE <<>>)],
           <<NL, NL>>)

\* the context parts of ReaderAgent.send: the knowledge base section, then
\* the section of the documents retrieved for the prompt; a quoted chunk,
\* its source tag included, is one token
ContextParts(prompt, reader) ==
  LET docs == IF reader.retriever # ""
              THEN GetRelevantDocuments(reader.retriever, prompt, reader.bm25_k)
              ELSE <<>>
      ctx == [i \in 1..Len(docs) |->
                <<"[SOURCE: " \o reader.retriever \o " | CHUNK: " \o docs[i] \o "] "
                  \o docs[i]>>]
  IN  (IF reader.knowledge_base # <<>>
       THEN << <<"--- Extracted Knowledge Base ---", NL>>
               \o FormatKnowledgeBase(reader.knowledge_base) >>
       ELSE <<>>)
      \o (IF docs # <<>>
          THEN << <<"--- Retrieved Document Chunks ---", NL>>
                  \o Join(ctx, <<NL, NL>>) >>
          ELSE <<>>)

\* ReaderAgent.send: the prompt given to the provider; the line of dashes is
\* one token
ReaderPrompt(prompt, reader) ==
  LET context_parts == ContextParts(prompt, reader)
  IN  IF context_parts # <<>>
      THEN prompt \o <<NL, NL>> \o Join(context_parts, <<NL, NL>>)
           \o <<NL, "-----", NL>>
      ELSE prompt

\* hashlib.sha256(seed_src): the digest is a function of the text, here of
\* its length and of how many line breaks it has
Sha256(text) ==
  (Len(text) * 7 + Len(SelectSeq(text, LAMBDA t : t = NL)) * 3) % 41

\* the offline placeholder of _call_grok_api: confidence in [0.55, 0.95] from
\* the hash, content echoing the prompt, two citations from the hash
Instructions(role) == <<"instructions of " \o role, DOT, NL, "second line">>

MockReply_Salted(role, prompt) ==
  LET instructions == Instructions(role)
      h == (Sha256(instructions \o <<NL>> \o prompt)
            + Cardinality({i \in DOMAIN runs : runs[i].pc = "returned"})) % 41
  IN  [content |-> <<"[" \o Upper(role) \o "] ">>
                   \o Strip(Split(instructions, NL)[1])
                   \o <<NL, "Prompt: ">> \o prompt
                   \o <<NL, "Response: Based on the provided context", DOT>>,
       citations |-> <<"mock://ref/" \o ToString(h), "mock://ref/" \o ToString(h + 1)>>,
       confidence |-> 55 + h]

MockReply(role, prompt) ==
  LET instructions == Instructions(role)
      h == Sha256(instructions \o <<NL>> \o prompt)
  IN  [content |-> <<"[" \o Upper(role) \o "] ">>
                   \o Strip(Split(instructions, NL)[1])
                   \o <<NL, "Prompt: ">> \o prompt
                   \o <<NL, "Response: Based on the provided context", DOT>>,
       citations |-> <<"mock://ref/" \o ToString(h), "mock://ref/" \o ToString(h + 1)>>,
       confidence |-> 55 + h]

\* the retrieval arguments of a run call; "none" is enable_bm25 = None, "" is
\* files_dir = None
RetrievalArgs ==
  {[enable_bm25 |-> "none", files_dir |-> "", bm25_k |-> DefaultK],
   [enable_bm25 |-> "true", files_dir |-> "docs", bm25_k |-> DefaultK],
   [enable_bm25 |-> "true", files_dir |-> "", bm25_k |-> 1],
   [enable_bm25 |-> "false", files_dir |-> "", bm25_k |-> 1]}

\* the topic and the threshold of a run call
Requests ==
  {[topic |-> <<"topic">>, consensus_threshold |-> DefaultThreshold],
   [topic |-> <<"topic">>, consensus_threshold |-> 101],
   [topic |-> <<"other">>, consensus_threshold |-> DefaultThreshold]}

\* the arguments of a run call
RunArgs ==
  {[topic |-> q.topic, max_turns |-> MaxTurns,
    consensus_threshold |-> q.consensus_threshold,
    enable_bm25 |-> r.enable_bm25, files_dir |-> r.files_dir, bm25_k |-> r.bm25_k] :
     q \in Requests, r \in RetrievalArgs}

\* a run call that has not been made yet
NewRun(args) ==
  [pc |-> "start", args |-> args, run_id |-> "", before |-> NoReader,
   selected |-> NoReader, used |-> <<>>, after |-> {}, turn_index |-> 0,
   turn_messages |-> <<>>, turns |-> <<>>]

\* run_id = str(uuid.uuid4()): a version-4 UUID is a fresh identifier, one
\* that no earlier call has been given; which one it is makes no difference
Uuid4_Reused(issued) == CHOOSE id \in Uuids : TRUE

Uuid4(issued) == CHOOSE id \in Uuids \ issued : TRUE

\* the clock reading of the run calls
StartedAt == CHOOSE d \in Datetimes : d.microsecond # 0

\* the Trace object of run call r when it leaves its loop
RunTrace(r, turns) ==
  [run_id |-> r.run_id, topic |-> r.args.topic, created_at |-> StartedAt,
   status |-> "complete", turns |-> turns]

\* _persist_trace(trace); _persist_report(trace): the two files of the
\* directory DATA_ROOT / trace.run_id
Persisted(t) ==
  [trace |-> <<JsonDump(t, TraceFields)>>,
   report |-> <<JsonDump(BuildReport(t), ReportFields)>>]

InitRuns ==
  /\ pc = "serving"
  /\ max_turns = 0
  /\ consensus_threshold = DefaultThreshold
  /\ \E enable \in {"auto", "false"} :
       env = [DEBATE_ENABLE |-> "false", DEBATE_ROUNDS |-> 1,
              ENABLE_BM25 |-> enable, BM25_FILES_DIR |-> "files",
              KNOWLEDGE_BASE_PATH |-> "data/knowledge_base.json"]
  /\ provider = {}
  /\ debate_enabled = FALSE
  /\ debate_rounds = 1
  /\ trace = NoTrace
  /\ turn_index = 0
  /\ turn_messages = <<>>
  /\ main_msgs = [role \in {Roles[i] : i \in 1..5} |-> NoMessage]
  /\ handoffs = [b \in 1..4 |-> <<>>]
  /\ debate = NoDebate
  /\ debate_result = NoResult
  /\ store = [trace |-> <<>>, report |-> <<>>]
  /\ calls = <<<<>>>>
  /\ response = NoResponse
  /\ loader = NoLoader
  /\ self_reader = InitialReader(env)
  /\ runs \in [RunIds -> {NewRun(a) : a \in RunArgs}]
  /\ agent = NoAgent
  /\ data_root = EmptyRoot
  /\ client = NoClient
  /\ stream = NoStream

\* what SpecRuns leaves alone: the single run call of Spec and the store
single ==
  <<pc, max_turns, consensus_threshold, env, provider, debate_enabled,
    debate_rounds, trace, turn_index, turn_messages, main_msgs, handoffs, debate,
    debate_result, store, calls, response, loader, agent, client, stream>>

\* run up to its first agent invocation: the retrieval override replaces
\* self.reader; the run goes on with the ReaderAgent it finds there
RunStart ==
  \E i \in RunIds :
    /\ runs[i].pc = "start"
    /\ self_reader' = Override(self_reader, runs[i].args, env)
    /\ runs' = [runs EXCEPT ![i].pc = "reader",
                            ![i].run_id = Uuid4({runs[j].run_id : j \in RunIds}),
                            ![i].before = self_reader,
                            ![i].selected = self_reader',
                            ![i].after = {j \in RunIds : runs[j].pc = "returned"}]
    /\ UNCHANGED <<single, data_root>>

\* reader_msg = self.reader.send(topic): self.reader is read at the call
RunReader ==
  \E i \in RunIds :
    /\ runs[i].pc = "reader"
    /\ LET r == runs[i]
           msg == Message("reader",
                          MockReply("reader", ReaderPrompt(r.args.topic, self_reader)))
       IN  runs' = [runs EXCEPT ![i].pc = "critic",
                                ![i].used = Append(@, self_reader),
                                ![i].turn_messages = <<msg>>]
    /\ UNCHANGED <<single, self_reader, data_root>>

\* the critic, synthesizer and verifier invocations (debate disabled): each
\* prompt is built from the turn's earlier messages
RunDownstream ==
  \E i \in RunIds :
    /\ runs[i].pc \in {"critic", "synthesizer", "verifier"}
    /\ LET r == runs[i]
           m == r.turn_messages
           prompt == CASE r.pc = "critic" -> CriticInput(m[1].content)
                       [] r.pc = "synthesizer" -> SynthInput(m[1].content, m[2].content)
                       [] r.pc = "verifier" -> VerifyInput(m[3].content)
       IN  runs' = [runs EXCEPT
                      ![i].pc = Roles[Len(m) + 2],
                      ![i].turn_messages =
                          Append(@, Message(r.pc, MockReply(r.pc, prompt)))]
    /\ UNCHANGED <<single, self_reader, data_root>>

\* the followup invocation, the turn's append to the trace, the stop condition
\* and the end of the run: the two artifacts are written under the run_id
RunFollowup ==
  \E i \in RunIds :
    /\ runs[i].pc = "followup"
    /\ LET r == runs[i]
           m == r.turn_messages
           prompt == FollowupInput(r.args.topic, m[1].content, m[2].content,
                                   m[3].content, m[4].confidence, m[4].content)
           tm == Append(m, Message("followup", MockReply("followup", prompt)))
           turns == Append(r.turns, Turn(r.turn_index, tm))
       IN  IF \/ StopCondition(m[4].confidence, r.args.consensus_threshold)
              \/ r.turn_index + 1 >= r.args.max_turns
           THEN /\ runs' = [runs EXCEPT ![i].pc = "returned", ![i].turns = turns,
                                        ![i].turn_messages = tm]
                /\ data_root' = [data_root EXCEPT
                                   ![r.run_id] = Persisted(RunTrace(r, turns))]
           ELSE /\ runs' = [runs EXCEPT ![i].pc = "reader", ![i].turns = turns,
                                        ![i].turn_messages = <<>>,
                                        ![i].turn_index = @ + 1]
                /\ UNCHANGED data_root
    /\ UNCHANGED <<single, self_reader>>

NextRuns ==
  \/ RunStart
  \/ RunReader
  \/ RunDownstream
  \/ RunFollowup

SpecRuns == InitRuns /\ [][NextRuns]_vars

\* ------------------------------------- the invocations of one agent
\* the invocations followed
MaxCalls == 3

\* os.getenv("REQUIRE_PROVIDER", "false").lower() == "true"
RequireProvider_CaseSensitive(e) == e.REQUIRE_PROVIDER = "true"

RequireProvider(e) == LowerTok(e.REQUIRE_PROVIDER) = "true"

\* bool(os.getenv("GEMINI_API_KEY") or os.getenv("GROQ_API_KEY") or
\* os.getenv("GROK_API_KEY") or os.getenv("LLM_PROVIDER")); of the three
\* providers the environment names Gemini and Groq here
ProviderEnvSet(e) ==
  e.GEMINI_API_KEY # "" \/ e.GROQ_API_KEY # "" \/ e.LLM_PROVIDER # ""

\* LLMClient(): self.provider, the provider named or found by its key; ""
\* stands for the RuntimeError raised when it is not a known one or its key is
\* missing
ClientProvider(e) ==
  LET name == IF e.LLM_PROVIDER # "" THEN e.LLM_PROVIDER
              ELSE IF e.GEMINI_API_KEY # "" THEN "gemini"
              ELSE IF e.GROQ_API_KEY # "" THEN "groq"
              ELSE ""
  IN  IF name = "groq" /\ e.GROQ_API_KEY # "" THEN "groq"
      ELSE IF name = "gemini" /\ e.GEMINI_API_KEY # "" THEN "gemini"
      ELSE ""

ClientInit(e) == ClientProvider(e) # ""

\* the "confidence" member of the provider's JSON answer: absent, a number
\* (in hundredths), NaN, or a text that is not a number
Absent == [kind |-> "absent", n |-> 0]

Number(n) == [kind |-> "number", n |-> n]

NaN == [kind |-> "nan", n |-> 0]

NotANumber == [kind |-> "text", n |-> 0]

RawConfidences == {Absent, Number(-20), Number(150), NaN, NotANumber}

\* the fixed confidence of the Gemini path, and the default of the other
ProviderConfidence == 75

\* conf = data.get("confidence", 0.75); try: float(conf) except: 0.75
Float(conf) ==
  IF conf.kind \in {"absent", "text"} THEN Number(ProviderConfidence) ELSE conf

\* max(0.0, min(1.0, confidence)): a comparison with NaN is false, so
\* min(1.0, NaN) is 1.0
Clamp_None(x) == x.n

Clamp(x) ==
  LET upper == IF x.kind = "nan" THEN 100 ELSE IF x.n < 100 THEN x.n ELSE 100
  IN  IF upper > 0 THEN upper ELSE 0

\* what client.generate returns when the provider answers: _generate_gemini
\* gives no citations and the fixed confidence, _generate_openai_compatible
\* the clamped confidence of the answer
ProviderReply(provider_name, conf) ==
  [content |-> <<"generated">>, citations |-> <<>>,
   confidence |-> IF provider_name = "gemini" THEN ProviderConfidence
                  ELSE Clamp(Float(conf))]

\* an answer of the OpenAI-compatible path whose citations are not a list of
\* strings: the token stands for an element that is a JSON object
MalformedReply(conf) ==
  [content |-> <<"generated">>, citations |-> <<"{...}">>,
   confidence |-> Clamp(Float(conf))]

\* citations: List[str] of the Message model
ValidCitations(citations) ==
  \A i \in 1..Len(citations) : citations[i] # "{...}"

\* _call_grok_api: generate is how the provider call ends when it is made
\* ("ok", "malformed": it returns; "fails": it raises), conf the confidence
\* member of the answer
CallGrokApi(e, generate, conf, role, prompt) ==
  IF ProviderEnvSet(e)
  THEN IF ClientInit(e) /\ generate = "ok"
       THEN Returned(ProviderReply(ClientProvider(e), conf))
       ELSE IF ClientInit(e) /\ generate = "malformed"
       THEN Returned(MalformedReply(conf))
       ELSE IF RequireProvider(e) THEN Raised("provider error")
       ELSE Returned(MockReply(role, prompt))
  ELSE IF RequireProvider(e) THEN Raised("RuntimeError")
       ELSE Returned(MockReply(role, prompt))

\* BaseAgent.send: the Message built from what _call_grok_api returns; the
\* Message model rejects citations that are not a list of strings and a
\* confidence outside [0, 1]
AgentSend(e, generate, conf, role, prompt) ==
  LET r == CallGrokApi(e, generate, conf, role, prompt)
  IN  IF r.outcome = "raised" THEN r
      ELSE IF ~ValidCitations(r.value[1].citations) THEN Raised("ValidationError")
      ELSE IF ~ValidConfidence(r.value[1].confidence) THEN Raised("ValidationError")
      ELSE Returned(Message(role, r.value[1]))

InitAgent ==
  /\ pc = "invoking"
  /\ max_turns = 0
  /\ consensus_threshold = DefaultThreshold
  /\ \E require \in {"false", "true", "True", "1"},
        name \in {"", "groq", "gemini", "bogus"},
        groq_key \in {"", "key"}, gemini_key \in {"", "key"} :
       env = [DEBATE_ENABLE |-> "false", DEBATE_ROUNDS |-> 1,
              REQUIRE_PROVIDER |-> require, LLM_PROVIDER |-> name,
              GROQ_API_KEY |-> groq_key, GEMINI_API_KEY |-> gemini_key]
  /\ provider = {}
  /\ debate_enabled = FALSE
  /\ debate_rounds = 1
  /\ trace = NoTrace
  /\ turn_index = 0
  /\ turn_messages = <<>>
  /\ main_msgs = [role \in {Roles[i] : i \in 1..5} |-> NoMessage]
  /\ handoffs = [b \in 1..4 |-> <<>>]
  /\ debate = NoDebate
  /\ debate_result = NoResult
  /\ store = [trace |-> <<>>, report |-> <<>>]
  /\ calls = <<<<>>>>
  /\ response = NoResponse
  /\ loader = NoLoader
  /\ self_reader = NoReader
  /\ runs = <<>>
  /\ agent = <<>>
  /\ data_root = EmptyRoot
  /\ client = NoClient
  /\ stream = NoStream

\* one invocation of the agent by a run; a run makes no invocation after one
\* that raised.  The environment is read at the call.  The Gemini path builds
\* its citations itself, and an answer that does not come has no confidence.
Send ==
  /\ pc = "invoking"
  /\ Len(agent) < MaxCalls
  /\ \E role \in {"reader", "verifier"}, generate \in {"ok", "malformed", "fails"},
        conf \in RawConfidences :
       LET prompt == <<"topic">>
           made == ProviderEnvSet(env) /\ ClientInit(env)
           result == AgentSend(env, generate, conf, role, prompt)
       IN  /\ made \/ generate = "fails"
           /\ generate = "malformed" => ClientProvider(env) # "gemini"
           /\ generate # "ok" => conf = Absent
           /\ agent' = Append(agent,
                              [role |-> role, prompt |-> prompt,
                               generate |-> IF made THEN generate ELSE "not made",
                               conf |-> conf,
                               provider |-> ClientProvider(env),
                               require_provider |-> RequireProvider(env),
                               result |-> result])
           /\ pc' = IF result.outcome = "raised" THEN "raised" ELSE "invoking"
  /\ UNCHANGED <<max_turns, consensus_threshold, env, provider, debate_enabled,
                 debate_rounds, trace, turn_index, turn_messages, main_msgs,
                 handoffs, debate, debate_result, store, calls, response, loader,
                 self_reader, runs, data_root, client, stream>>

NextAgent == Send

SpecAgent == InitAgent /\ [][NextAgent]_vars

\* ---------------------------------------------- the Extractor alone
\* the prompts given to the Extractor: one word, a word of the second chunk
\* only, both, and a prompt without a word
ReaderPrompts == {<<"topic">>, <<"methods">>, <<"topic", "methods">>, <<"?">>}

\* ReaderAgent(retriever, bm25_k, knowledge_base_path) with each kind of
\* source present and absent; no provider is configured
InitReaderAgent ==
  /\ pc = "reading"
  /\ max_turns = 0
  /\ consensus_threshold = DefaultThreshold
  /\ env = [DEBATE_ENABLE |-> "false", DEBATE_ROUNDS |-> 1,
            REQUIRE_PROVIDER |-> "false", LLM_PROVIDER |-> "",
            GROQ_API_KEY |-> "", GEMINI_API_KEY |-> ""]
  /\ provider = {}
  /\ debate_enabled = FALSE
  /\ debate_rounds = 1
  /\ trace = NoTrace
  /\ turn_index = 0
  /\ turn_messages = <<>>
  /\ main_msgs = [role \in {Roles[i] : i \in 1..5} |-> NoMessage]
  /\ handoffs = [b \in 1..4 |-> <<>>]
  /\ debate = NoDebate
  /\ debate_result = NoResult
  /\ store = [trace |-> <<>>, report |-> <<>>]
  /\ calls = <<<<>>>>
  /\ response = NoResponse
  /\ loader = NoLoader
  /\ \E retriever \in {"", "files", "docs"}, bm25_k \in {0, 1, DefaultK},
        path \in {"data/knowledge_base.json", "kb1.json", "kb4.json"} :
       self_reader = ReaderAgent(retriever, bm25_k, path)
  /\ runs = <<>>
  /\ agent = <<>>
  /\ data_root = EmptyRoot
  /\ client = NoClient
  /\ stream = NoStream

\* ReaderAgent.send(prompt): queries holds what the retriever was asked, docs
\* what it returned, sent what super().send was given
ExtractorSend ==
  /\ pc = "reading"
  /\ Len(agent) < MaxCalls
  /\ \E prompt \in ReaderPrompts :
       LET sent == ReaderPrompt(prompt, self_reader)
           result == AgentSend(env, "ok", Absent, "reader", sent)
       IN  /\ agent' = Append(agent,
                              [role |-> "reader", prompt |-> prompt,
                               queries |-> IF self_reader.retriever # ""
                                           THEN <<prompt>> ELSE <<>>,
                               docs |-> IF self_reader.retriever # ""
                                        THEN GetRelevantDocuments(
                                               self_reader.retriever, prompt,
                                               self_reader.bm25_k)
                                        ELSE <<>>,
                               sent |-> sent,
                               result |-> result])
           /\ pc' = IF result.outcome = "raised" THEN "raised" ELSE "reading"
  /\ UNCHANGED <<max_turns, consensus_threshold, env, provider, debate_enabled,
                 debate_rounds, trace, turn_index, turn_messages, main_msgs,
                 handoffs, debate, debate_result, store, calls, response, loader,
                 self_reader, runs, data_root, client, stream>>

NextReader == ExtractorSend

SpecReader == InitReaderAgent /\ [][NextReader]_vars

\* ---------------------------------------------- the provider client
\* the largest LLM_RETRY_MAX of the runs
MaxRetries == 2

\* min(sleep_s, 15.0): the cap of a backoff sleep, in seconds
SleepCap == 15

\* what client.post can end with: a status code, or 0 for a TimeoutException
\* or ConnectError
NetworkError == 0
PostOutcomes == {200, 400, 401, 404, 429, 503, NetworkError}

\* resp.status_code in (429, 500, 502, 503, 504)
Transient(status) == status \in {429, 500, 502, 503, 504}

\* model_candidates of _generate_gemini for a configured model
ModelCandidates(model) ==
  LET live == IF Len(model) > 5 /\ SubSeq(model, Len(model) - 4, Len(model)) = "-live"
              THEN <<model, SubSeq(model, 1, Len(model) - 5)>>
              ELSE <<model>>
      stable == IF \E i \in 1..Len(live) : live[i] = "gemini-2.5-flash"
                THEN live ELSE Append(live, "gemini-2.5-flash")
  IN  IF \E i \in 1..Len(stable) : stable[i] = "gemini-1.5-flash"
      THEN stable ELSE Append(stable, "gemini-1.5-flash")

\* the generate call at its first request: max_retries is LLM_RETRY_MAX,
\* base_delay LLM_RETRY_BASE_DELAY, min_interval LLM_MIN_INTERVAL_S; rate_last
\* tells whether _RATE_LAST_TS is set, since the seconds gone since then;
\* requests, transient and network count the requests made and how they
\* failed, slept is the last backoff sleep and waited the guard's last wait
Generate(provider_name, model, max_retries, base_delay, min_interval) ==
  [provider |-> provider_name,
   candidates |-> IF provider_name = "gemini" THEN ModelCandidates(model)
                  ELSE <<model>>,
   candidate |-> 1, posted |-> {}, max_retries |-> max_retries,
   base_delay |-> base_delay, min_interval |-> min_interval,
   attempt |-> 0, requests |-> 0, transient |-> 0, network |-> 0,
   rate_last |-> FALSE, since |-> 0,
   waited |-> 0, slept |-> 0, cause |-> "", pc |-> "post", exception |-> ""]

\* _respect_min_interval: the seconds it sleeps before a request
RespectMinInterval(c) ==
  IF c.min_interval <= 0 THEN 0
  ELSE IF c.rate_last
       THEN IF c.min_interval - c.since > 0 THEN c.min_interval - c.since ELSE 0
       ELSE c.min_interval

\* base_delay * (2 ** (attempt - 1))
Exponential(base_delay, attempt) == base_delay * 2 ^ (attempt - 1)

\* actual_sleep = min(sleep_s, 15.0)
ActualSleep_Uncapped(sleep_s) == sleep_s

ActualSleep(sleep_s) == IF sleep_s < SleepCap THEN sleep_s ELSE SleepCap

\* the sleep after a transient status: the Retry-After hint when positive,
\* else the exponential delay, plus up to a quarter of it
TransientSleep(c, attempt, retry_after, jitter) ==
  LET sleep_s == IF retry_after > 0 THEN retry_after
                 ELSE Exponential(c.base_delay, attempt)
  IN  ActualSleep(sleep_s + (IF jitter THEN sleep_s \div 4 ELSE 0))

\* the sleep after a network error: the exponential delay plus up to a
\* quarter of base_delay
NetworkSleep(c, attempt, jitter) ==
  ActualSleep(Exponential(c.base_delay, attempt)
              + (IF jitter THEN c.base_delay \div 4 ELSE 0))

\* the call ends
ClientRaises(c, exception, cause) ==
  [c EXCEPT !.pc = "raised", !.exception = exception, !.cause = cause]

ClientReturns(c) == [c EXCEPT !.pc = "returned"]

\* sleep and go round the while loop again
Retry(c, attempt, slept) ==
  [c EXCEPT !.attempt = attempt, !.slept = slept, !.since = @ + slept]

\* one round of the while loop of _generate_openai_compatible after its
\* request: both failure kinds count in attempt
OpenAIRound_OwnCounters(c, outcome, retry_after, jitter) ==
  IF outcome = NetworkError
  THEN IF c.attempt + 1 > c.max_retries
       THEN ClientRaises([c EXCEPT !.attempt = @ + 1], "ConnectError", "network")
       ELSE Retry(c, c.attempt, NetworkSleep(c, c.attempt + 1, jitter))
  ELSE IF Transient(outcome)
  THEN IF c.attempt >= c.max_retries
       THEN ClientRaises(c, "HTTPStatusError", "transient")
       ELSE Retry(c, c.attempt + 1, TransientSleep(c, c.attempt + 1, retry_after, jitter))
  ELSE IF outcome = 200 THEN ClientReturns(c)
  ELSE ClientRaises(c, "HTTPStatusError", "status")

OpenAIRound(c, outcome, retry_after, jitter) ==
  IF outcome = NetworkError
  THEN IF c.attempt + 1 > c.max_retries
       THEN ClientRaises([c EXCEPT !.attempt = @ + 1], "ConnectError", "network")
       ELSE Retry(c, c.attempt + 1, NetworkSleep(c, c.attempt + 1, jitter))
  ELSE IF Transient(outcome)
  THEN IF c.attempt >= c.max_retries
       THEN ClientRaises(c, "HTTPStatusError", "transient")
       ELSE Retry(c, c.attempt + 1, TransientSleep(c, c.attempt + 1, retry_after, jitter))
  ELSE IF outcome = 200 THEN ClientReturns(c)
  ELSE ClientRaises(c, "HTTPStatusError", "status")

\* break of the while loop of _generate_gemini: the next model candidate, or
\* the RuntimeError after the last one
NextCandidate(c, cause) ==
  IF c.candidate < Len(c.candidates)
  THEN [c EXCEPT !.candidate = @ + 1, !.attempt = 0, !.cause = cause]
  ELSE ClientRaises(c, "RuntimeError", cause)

\* one round of the while loop of _generate_gemini after its request
GeminiRound(c, outcome, retry_after, jitter) ==
  IF outcome = NetworkError
  THEN IF c.attempt + 1 > c.max_retries
       THEN NextCandidate(c, "network")
       ELSE Retry(c, c.attempt + 1, NetworkSleep(c, c.attempt + 1, jitter))
  ELSE IF outcome \in {400, 404} THEN NextCandidate(c, "not found")
  ELSE IF Transient(outcome)
  THEN IF c.attempt >= c.max_retries
       THEN ClientRaises(c, "HTTPStatusError", "transient")
       ELSE Retry(c, c.attempt + 1, TransientSleep(c, c.attempt + 1, retry_after, jitter))
  ELSE IF outcome = 200 THEN ClientReturns(c)
  ELSE ClientRaises(c, "HTTPStatusError", "status")

\* LLMClient() and the environment of one generate call; no call was made
\* before in the process
InitClient ==
  /\ pc = "generating"
  /\ max_turns = 0
  /\ consensus_threshold = DefaultThreshold
  /\ env = [DEBATE_ENABLE |-> "false", DEBATE_ROUNDS |-> 1]
  /\ provider = {}
  /\ debate_enabled = FALSE
  /\ debate_rounds = 1
  /\ trace = NoTrace
  /\ turn_index = 0
  /\ turn_messages = <<>>
  /\ main_msgs = [role \in {Roles[i] : i \in 1..5} |-> NoMessage]
  /\ handoffs = [b \in 1..4 |-> <<>>]
  /\ debate = NoDebate
  /\ debate_result = NoResult
  /\ store = [trace |-> <<>>, report |-> <<>>]
  /\ calls = <<<<>>>>
  /\ response = NoResponse
  /\ loader = NoLoader
  /\ self_reader = NoReader
  /\ runs = <<>>
  /\ agent = <<>>
  /\ data_root = EmptyRoot
  /\ \E made \in {<<"groq", "llama-3.3-70b-versatile">>,
                  <<"gemini", "gemini-2.5-flash">>,
                  <<"gemini", "gemini-2.0-flash-live">>},
        max_retries \in -1..MaxRetries, base_delay \in {1, 8},
        min_interval \in {0, 40} :
       client = Generate(made[1], made[2], max_retries, base_delay, min_interval)
  /\ stream = NoStream

\* one round of the while loop: the rate-limit guard, the request which takes
\* up to a second, and what follows from its outcome
ClientPost ==
  /\ client.pc = "post"
  /\ \E outcome \in PostOutcomes, retry_after \in {0, 30}, jitter \in BOOLEAN,
        seconds \in {0, 1} :
       LET waited == RespectMinInterval(client)
           posted == [client EXCEPT
                        !.requests = @ + 1,
                        !.transient = IF Transient(outcome) THEN @ + 1 ELSE @,
                        !.network = IF outcome = NetworkError THEN @ + 1 ELSE @,
                        !.posted = @ \cup {client.candidate},
                        !.waited = waited,
                        !.rate_last = @ \/ client.min_interval > 0,
                        !.since = seconds]
       IN  /\ Transient(outcome) \/ retry_after = 0
           /\ client' = IF client.provider = "gemini"
                        THEN GeminiRound(posted, outcome, retry_after, jitter)
                        ELSE OpenAIRound(posted, outcome, retry_after, jitter)
  /\ UNCHANGED <<pc, max_turns, consensus_threshold, env, provider, debate_enabled,
                 debate_rounds, trace, turn_index, turn_messages, main_msgs,
                 handoffs, debate, debate_result, store, calls, response, loader,
                 self_reader, runs, agent, data_root, stream>>

NextClient == ClientPost

SpecClient == InitClient /\ [][NextClient]_vars

\* ---------------------------------------------- the live-update stream
\* max_checks = 600
MaxChecks == 600

\* the polls that end in JSONDecodeError, which the runs are cut at
MaxUndecoded == 2

\* "content": msg.get('content', '')[:200]
PreviewLen == 200

\* generate_sse_update(update_type, data): message is the "message" or the
\* "topic" member, count the "index" or the "total_messages" member
SseUpdate(update_type, message, role, content, count) ==
  [type |-> update_type, message |-> message, role |-> role,
   content |-> content, count |-> count]

\* trace_data.get(key, default)
Get(data, key, default) == IF key \in DOMAIN data THEN data[key] ELSE default

\* final_insight and final_insight.get('status') == 'complete'
InsightComplete(data) ==
  IF "final_insight" \in DOMAIN data
  THEN data["final_insight"].status = "complete"
  ELSE FALSE

\* the "message" events of the messages from last_message_count on
NewMessages(messages, last_message_count) ==
  [k \in 1..(Len(messages) - last_message_count) |->
     LET i == last_message_count + k - 1
     IN  SseUpdate("message", "", messages[i + 1].role,
                   Take(messages[i + 1].content, PreviewLen), i)]

\* the traces whose files the stream watches: a run of one turn, and a run
\* without a turn
StreamTraces ==
  LET created_at == CHOOSE d \in Datetimes : TRUE
      reply == CHOOSE r \in MainReplies("verifier") : TRUE
  IN  {Complete([NewTrace(created_at) EXCEPT
                   !.turns = <<Turn(0, FiveMessages(reply))>>]),
       Complete(NewTrace(created_at))}

\* what trace.json can be: missing, cut, or the text _persist_trace wrote
TraceFiles(t) ==
  {<<>>, <<Take(JsonDump(t, TraceFields), 2)>>, <<JsonDump(t, TraceFields)>>}

\* json.load raises JSONDecodeError on the file
Undecodable(file) == IF Exists(file) THEN ~JsonLoad(file[1]).ok ELSE FALSE

\* the generator before its first step; steady tells that the file has not
\* changed since, undecoded counts the polls that ended in JSONDecodeError
NewStream ==
  [pc |-> "start", check_count |-> 0, last_message_count |-> 0,
   undecoded |-> 0, steady |-> TRUE, events |-> <<>>]

Yield(g, event) == [g EXCEPT !.events = Append(@, event)]

\* yield ...; return
YieldReturn(g, event) == [Yield(g, event) EXCEPT !.pc = "ended"]

\* event_generator up to its while loop: "error" if the file is missing or
\* cannot be loaded, else "init" with the topic
StreamInit(g, file) ==
  IF ~Exists(file)
  THEN YieldReturn(g, SseUpdate("error", "Run not found", "", <<>>, 0))
  ELSE LET j == JsonLoad(file[1])
       IN  IF j.ok
           THEN [Yield(g, SseUpdate("init", Get(j.data, "topic", "Research in progress..."),
                                    "", <<>>, 0))
                   EXCEPT !.pc = "poll"]
           ELSE YieldReturn(g, SseUpdate("error", "JSONDecodeError", "", <<>>, 0))

\* one round of the while loop; check_count is counted at the end of a round
\* that loaded the file, not in the JSONDecodeError handler
StreamRound(g, file) ==
  IF ~Exists(file)
  THEN YieldReturn(g, SseUpdate("error", "Trace file disappeared", "", <<>>, 0))
  ELSE LET j == JsonLoad(file[1])
       IN  IF ~j.ok
           THEN [g EXCEPT !.undecoded = @ + 1]
           ELSE LET messages == Get(j.data, "messages", <<>>)
                    current_message_count == Len(messages)
                    sent == IF current_message_count > g.last_message_count
                            THEN [g EXCEPT
                                    !.events = @ \o NewMessages(messages, g.last_message_count),
                                    !.last_message_count = current_message_count]
                            ELSE g
                IN  IF InsightComplete(j.data)
                    THEN YieldReturn(sent, SseUpdate("complete", "Run completed successfully",
                                                     "", <<>>, current_message_count))
                    ELSE [sent EXCEPT !.check_count = @ + 1]

\* a run's trace, its file in one of its states, and a stream request for it
InitStream ==
  /\ pc = "streaming"
  /\ trace \in StreamTraces
  /\ max_turns = Len(trace.turns)
  /\ consensus_threshold = DefaultThreshold
  /\ env = [DEBATE_ENABLE |-> "false", DEBATE_ROUNDS |-> 1]
  /\ provider = {}
  /\ debate_enabled = FALSE
  /\ debate_rounds = 1
  /\ turn_index = 0
  /\ turn_messages = <<>>
  /\ main_msgs = [role \in {Roles[i] : i \in 1..5} |-> NoMessage]
  /\ handoffs = [b \in 1..4 |-> <<>>]
  /\ debate = NoDebate
  /\ debate_result = NoResult
  /\ \E file \in TraceFiles(trace) : store = [trace |-> file, report |-> <<>>]
  /\ calls = <<<<>>>>
  /\ response = NoResponse
  /\ loader = NoLoader
  /\ self_reader = NoReader
  /\ runs = <<>>
  /\ agent = <<>>
  /\ data_root = EmptyRoot
  /\ client = NoClient
  /\ stream = NewStream

\* what the stream model leaves alone
unstreamed ==
  <<pc, max_turns, consensus_threshold, env, provider, debate_enabled,
    debate_rounds, trace, turn_index, turn_messages, main_msgs, handoffs,
    debate, debate_result, calls, response, loader, self_reader, runs, agent,
    data_root, client>>

\* the first step of the generator
StreamStart ==
  /\ stream.pc = "start"
  /\ stream' = StreamInit(stream, store.trace)
  /\ UNCHANGED <<unstreamed, store>>

\* while check_count < max_checks: one round
StreamPoll ==
  /\ stream.pc = "poll"
  /\ stream.check_count < MaxChecks
  /\ stream.undecoded < MaxUndecoded \/ ~Undecodable(store.trace)
  /\ stream' = StreamRound(stream, store.trace)
  /\ UNCHANGED <<unstreamed, store>>

\* the loop is left: "complete" with "Monitoring timeout"
StreamTimeout ==
  /\ stream.pc = "poll"
  /\ stream.check_count >= MaxChecks
  /\ stream' = YieldReturn(stream, SseUpdate("complete", "Monitoring timeout", "", <<>>, 0))
  /\ UNCHANGED <<unstreamed, store>>

\* the trace file changes under the generator: it is removed, cut or whole
FileChanges ==
  /\ stream.pc = "poll"
  /\ \E file \in TraceFiles(trace) \ {store.trace} :
       store' = [store EXCEPT !.trace = file]
  /\ stream' = [stream EXCEPT !.steady = FALSE]
  /\ UNCHANGED unstreamed

NextStream ==
  \/ StreamStart
  \/ StreamPoll
  \/ StreamTimeout
  \/ FileChanges

SpecStream == InitStream /\ [][NextStream]_vars

\* ---------------------------------------------- reading the history
\* the agent invocations of turn t, in the order they returned
TurnCalls(t) == calls[t + 1]

\* the roles of the debate an invocation belongs to
CallBoundary(c) ==
  IF c.stage = 0
  THEN [a_role |-> debate.a_role, b_role |-> debate.b_role]
  ELSE Boundaries[c.stage \div 2]

\* what a trace holds for an invocation: the returned message, with the round
\* tag line in front of the content when the invocation was made by a debate
Stored(c) ==
  IF c.kind = "main" THEN c.msg
  ELSE Tagged(c.msg, Header(CallBoundary(c).a_role, CallBoundary(c).b_role,
                            c.msg.role, c.kind, c.round))

\* the main-pipeline message of stage k (M1..M5) of turn t
MainMessage(t, k) ==
  LET IsMk(c) == c.stage = 2 * k - 1
  IN  SelectSeq(TurnCalls(t), IsMk)[1].msg

M3(t) == MainMessage(t, 3)

M4(t) == MainMessage(t, 4)

M5(t) == MainMessage(t, 5)

\* the message B's agent returned for its synthesis of round k of the debate
SynthesisOf(k) ==
  LET IsSynthesis(c) == c.kind = "synthesis" /\ c.round = k
  IN  SelectSeq(TurnCalls(0), IsSynthesis)[1].msg

\* the completion marker, in any letter case
HasDoneMarker(text) ==
  \E i \in 1..Len(text) : text[i] \in {"[DONE]", "[Done]", "[done]"}

Minimum(S) == CHOOSE x \in S : \A y \in S : x <= y

PersistedTrace == LoadTrace(store.trace).value[1]

PersistedReport == LoadReport(store.report).value[1]

\* debate is disabled by the environment of the run
DebateOff == env.DEBATE_ENABLE # "true" \/ env.DEBATE_ROUNDS <= 0

C2_CompleteTraceShape ==
  (store.trace # <<>> /\ PersistedTrace.status = "complete") =>
    /\ PersistedTrace.turns # <<>>
    /\ \A i \in 1..Len(PersistedTrace.turns) :
         LET m == PersistedTrace.turns[i].messages
         IN  /\ m # <<>>
             /\ m[1].role = "reader"
             /\ m[Len(m)].role = "followup"

\* ----------------------------------------------------------------- C3
\* C3: the messages of every turn of the trace are the messages of the turn's
\* agent invocations in the order the invocations returned, and that order is
\* M1, debate 1, M2, debate 2, M3, debate 3, M4, debate 4, M5: no message of a
\* later stage precedes a message of an earlier stage.
C3_TemporalOrder ==
  \A i \in 1..Len(trace.turns) :
    LET m == trace.turns[i].messages
        cs == TurnCalls(trace.turns[i].index)
    IN  /\ Len(m) = Len(cs)
        /\ \A j \in 1..Len(m) : m[j] = Stored(cs[j])
        /\ \A j \in 1..(Len(cs) - 1) : cs[j].stage <= cs[j + 1].stage
        /\ \A k \in 1..5 :
             Cardinality({j \in 1..Len(cs) : cs[j].stage = 2 * k - 1}) = 1
        /\ \A j \in 1..Len(cs) :
             cs[j].stage \in 1..9 /\ (cs[j].kind = "main" <=> cs[j].stage % 2 = 1)

\* a returned run whose turn holds a two-round debate
C3_Witness ==
  /\ pc = "returned"
  /\ \E i \in 1..Len(trace.turns) :
       \E j \in 1..Len(trace.turns[i].messages) :
         /\ j > 1
         /\ j < Len(trace.turns[i].messages)
         /\ TurnCalls(trace.turns[i].index)[j].round = 2

C5_DebateLength ==
  (pc = "debate_returned" /\ debate.max_rounds >= 1) =>
    LET n == Len(debate_result.debate_messages)
    IN  /\ \E r \in 1..debate.max_rounds : n = 3 * r
        /\ n >= 3
        /\ n <= 3 * debate.max_rounds

\* a debate that used every one of its (several) rounds
C5_Witness ==
  /\ pc = "debate_returned"
  /\ debate.max_rounds >= 2
  /\ Len(debate_result.debate_messages) = 3 * debate.max_rounds

\* ----------------------------------------------------------------- C6
\* C6: a debate runs exactly r rounds, r being the first round whose synthesis
\* holds the completion marker in any letter case, or max_rounds when no
\* synthesis holds it; the continuation marker or no marker goes on to the next
\* round; without the completion marker the debate still returns, with the last
\* synthesis as handoff.
C6_DebateRounds ==
  (pc = "debate_returned" /\ debate.max_rounds >= 1) =>
    LET rounds == Len(debate_result.debate_messages) \div 3
        IsSynthesis(c) == c.kind = "synthesis"
    IN  /\ rounds >= 1
        /\ Len(SelectSeq(TurnCalls(0), IsSynthesis)) = rounds
        /\ \A k \in 1..(rounds - 1) : ~HasDoneMarker(SynthesisOf(k).content)
        /\ HasDoneMarker(SynthesisOf(rounds).content) \/ rounds = debate.max_rounds
        /\ ~HasDoneMarker(SynthesisOf(rounds).content) =>
             debate_result.handoff_text = SynthesisOf(rounds).content

\* a debate that went on after a "[MORE]" synthesis and stopped, before its last
\* round, on a mixed-case marker
C6_Witness ==
  /\ pc = "debate_returned"
  /\ Len(debate_result.debate_messages) = 6
  /\ debate.max_rounds > 2
  /\ SynthesisOf(1).content = TextMORE
  /\ SynthesisOf(2).content = TextDone

\* ----------------------------------------------------------------- C7
\* C7: the handoff text of a debate is the content B's agent returned for its
\* final synthesis, which is the stored synthesis content without its first
\* line (the round tag); a debate with no round (max_rounds = 0) returns the
\* context unchanged and no message.
C7_Handoff ==
  pc = "debate_returned" =>
    LET msgs == debate_result.debate_messages
        rounds == Len(msgs) \div 3
    IN  IF debate.max_rounds >= 1
        THEN /\ msgs # <<>>
             /\ debate_result.handoff_text = SynthesisOf(rounds).content
             /\ msgs[Len(msgs)].content =
                  Header(debate.a_role, debate.b_role, debate.b_role,
                         "synthesis", rounds) \o debate_result.handoff_text
        ELSE /\ debate_result.handoff_text = debate.context
             /\ msgs = <<>>

\* a debate whose final synthesis has more than one line
C7_Witness ==
  /\ pc = "debate_returned"
  /\ debate.max_rounds >= 1
  /\ Contains(debate_result.handoff_text, NL)

\* ----------------------------------------------------------------- C8
\* C8: the persisted report's confidence is the confidence of the last turn's
\* main-pipeline verifier message M4, with and without debate; it is 0 only if
\* the last turn has no verifier message.
C8_ReportConfidence ==
  store.report # <<>> =>
    LET last_turn == PersistedTrace.turns[Len(PersistedTrace.turns)]
    IN  /\ PersistedReport.confidence = M4(last_turn.index).confidence
        /\ PersistedReport.confidence = 0 =>
             FirstWithRole(last_turn.messages, "verifier") = <<>>

\* ----------------------------------------------------------------- C9
\* C9: the persisted report's citations are the citations of the last turn's
\* M3, then M4, then M5, duplicates kept, with and without debate.
C9_ReportCitations ==
  store.report # <<>> =>
    LET t == PersistedTrace.turns[Len(PersistedTrace.turns)].index
    IN  PersistedReport.citations =
          M3(t).citations \o M4(t).citations \o M5(t).citations

\* ---------------------------------------------------------------- C10
\* C10: the persisted report has at most 5 hypotheses, none empty after
\* trimming, and they are the first (up to 5) non-blank period-delimited pieces
\* of the content of the last turn's main-pipeline synthesizer message M3.
C10_ReportHypotheses ==
  store.report # <<>> =>
    LET t == PersistedTrace.turns[Len(PersistedTrace.turns)].index
        h == PersistedReport.hypotheses
    IN  /\ Len(h) <= MaxHypotheses
        /\ \A i \in 1..Len(h) : Strip(h[i]) # <<>>
        /\ h = Hypotheses(M3(t).content)

\* ---------------------------------------------------------------- C11
\* C11: after run has returned, load_trace gives a trace equal to the Trace
\* object that was persisted (run_id, topic, created_at, status, and the turns
\* with every message's role, content, citations and confidence in order) and
\* load_report gives a report equal to the InsightReport that was persisted.
C11_LoadRoundTrip ==
  pc = "returned" =>
    /\ LoadTrace(store.trace) = Returned(trace)
    /\ LoadReport(store.report) = Returned(BuildReport(trace))

\* a returned run that started on a clock reading with a fraction of a second
\* and whose trace holds debate messages
C11_Witness ==
  /\ pc = "returned"
  /\ trace.created_at.microsecond # 0
  /\ Len(trace.turns[1].messages) > 5
  /\ LoadTrace(store.trace).outcome = "returned"
  /\ LoadReport(store.report).outcome = "returned"

\* ---------------------------------------------------------------- C12
\* C12: a load_trace or load_report call on a run_id whose artifact was never
\* written returns None without raising, and the handler answers it with the
\* missing-resource response (404), which is neither the response to a failed
\* run (503) nor an unhandled error.
C12_NotFound ==
  /\ (loader.pc = "done" /\ ~Exists(File(loader.run_id, loader.route))) =>
       /\ loader.result = ReturnedNone
       /\ loader.response = HTTPException(NotFoundStatus, "Run not found")
       /\ loader.response.status_code # RunFailedStatus
  /\ pc = "raised" =>
       /\ response.kind = "HTTPException"
       /\ response.status_code = RunFailedStatus
       /\ response.status_code # NotFoundStatus

\* a request for an unknown run_id answered while the store holds the
\* artifacts of another run, and a request for the report of a failed run
C12_Witness ==
  /\ loader.pc = "done"
  /\ loader.response.status_code = NotFoundStatus
  /\ \/ loader.run_id = UnknownRunId /\ pc = "returned"
     \/ loader.run_id = trace.run_id /\ loader.route = "insight" /\ pc = "raised"

\* ---------------------------------------------------------------- C13
\* C13: a load_trace or load_report call made while the writer persists the
\* same artifact ends either with None or with the complete artifact, never
\* with anything read from a partially written file.
C13_AtomicRead ==
  loader.pc = "done" =>
    \/ loader.result = ReturnedNone
    \/ /\ loader.route = "trace"
       /\ loader.result = Returned(trace)
    \/ /\ loader.route = "insight"
       /\ loader.result = Returned(BuildReport(trace))

\* ---------------------------------------------------------------- C14
\* C14: with two run calls in progress on one Orchestrator, every Extractor
\* invocation of a run uses the extractor configuration the run selected at
\* its start; the retrieval override of the other run is never observed.
C14_NoLeak ==
  \A i \in RunIds :
    \A k \in 1..Len(runs[i].used) : runs[i].used[k] = runs[i].selected

\* ---------------------------------------------------------------- C15
\* C15: a run called with enable_bm25 = None after a run with a retrieval
\* override has returned uses, in every Extractor invocation, the extractor
\* configuration the Orchestrator had before the overriding run.
C15_OverrideThisRunOnly ==
  \A i \in RunIds :
    \A j \in runs[i].after :
      (runs[j].args.enable_bm25 # "none" /\ runs[i].args.enable_bm25 = "none") =>
        \A k \in 1..Len(runs[i].used) : runs[i].used[k] = runs[j].before

\* ---------------------------------------------------------------- C18
\* C18 as stated: two returned runs with the same topic, max_turns and
\* consensus_threshold, debate disabled and the offline placeholder as
\* provider, have the same number of turns and, position by position, the
\* same messages.
SameRequest(i, j) ==
  /\ runs[i].pc = "returned"
  /\ runs[j].pc = "returned"
  /\ runs[i].args.topic = runs[j].args.topic
  /\ runs[i].args.max_turns = runs[j].args.max_turns
  /\ runs[i].args.consensus_threshold = runs[j].args.consensus_threshold

C18_Deterministic ==
  \A i \in RunIds : \A j \in RunIds :
    SameRequest(i, j) => runs[i].turns = runs[j].turns

\* the extractor configurations the Extractor invocations of a run used
UsedBy(i) == {runs[i].used[k] : k \in 1..Len(runs[i].used)}

\* C18, amended: two such runs have the same number of turns and the same
\* messages when, in addition, every Extractor invocation of both runs used
\* one and the same extractor configuration.
C18_SameExtractor ==
  \A i \in RunIds : \A j \in RunIds :
    (SameRequest(i, j) /\ Cardinality(UsedBy(i) \cup UsedBy(j)) = 1) =>
      /\ Len(runs[i].turns) = Len(runs[j].turns)
      /\ \A t \in 1..Len(runs[i].turns) :
           LET a == runs[i].turns[t].messages
               b == runs[j].turns[t].messages
           IN  /\ Len(a) = Len(b)
               /\ \A k \in 1..Len(a) : a[k] = b[k]

\* two returned runs of several turns each, one after the other, with the same
\* request and different retrieval arguments, that used the same extractor
\* configuration with a retriever
C18_Witness ==
  /\ SameRequest(1, 2)
  /\ 1 \in runs[2].after
  /\ runs[1].args.enable_bm25 # runs[2].args.enable_bm25
  /\ Cardinality(UsedBy(1) \cup UsedBy(2)) = 1
  /\ \A c \in UsedBy(1) : c.retriever # ""
  /\ Len(runs[1].turns) > 1

\* ---------------------------------------------------------------- C16
\* C16: when an agent invocation raises during a turn, run raises to its
\* caller, the store holds neither a trace nor a report for the run_id (so
\* load_trace returns no complete trace), the Trace object has not been given
\* status "complete", and start_run answers 503 "Run failed: ...".
C16_RunFailed ==
  [][(pc \in Invocations /\ pc' = "raised") =>
       /\ store' = [trace |-> <<>>, report |-> <<>>]
       /\ LoadTrace(store'.trace) = ReturnedNone
       /\ LoadReport(store'.report) = ReturnedNone
       /\ trace'.status = "running"
       /\ response' = HTTPException(RunFailedStatus, "Run failed: provider")]_vars

\* a run that raised in a debate of its second turn
C16_Witness ==
  /\ pc = "raised"
  /\ response.detail = "Run failed: provider"
  /\ Len(trace.turns) = 1
  /\ debate.debate_messages # <<>>
  /\ turn_index = 1

\* ---------------------------------------------------------------- C19
\* C19: the status of the run's trace is "running" during the turn loop, is
\* set to "complete" once, when the loop has ended, and the trace does not
\* change from then on; the trace file is written only when the status is
\* "complete" and holds the trace as it is, and the report file is written only
\* when the trace file exists.
C19_StatusLifecycle ==
  /\ [](/\ pc \in Invocations => trace.status = "running"
        /\ store.trace # <<>> =>
             /\ trace.status = "complete"
             /\ LoadTrace(store.trace) = Returned(trace)
        /\ store.report # <<>> => store.trace # <<>>)
  /\ [][/\ trace.status = "complete" => trace' = trace
        /\ (trace.status # "complete" /\ trace'.status = "complete") =>
             pc' = "persist_trace"
        /\ store'.trace # store.trace =>
             (pc = "persist_trace" /\ trace.status = "complete")
        /\ store'.report # store.report => store.trace # <<>>]_vars

\* a returned run of two turns: both files written, the trace complete
C19_Witness ==
  /\ pc = "returned"
  /\ trace.status = "complete"
  /\ Len(trace.turns) = 2
  /\ store.trace # <<>>
  /\ store.report # <<>>

\* ---------------------------------------------------------------- C20
\* C20: whenever run has returned a run_id, load_trace and load_report for it
\* each return an object (not None, and without raising), and each of the two
\* reads only its own file: it returns the same whether or not the other
\* file is there.
C20_BothArtifacts ==
  pc = "returned" =>
    /\ LoadTrace(store.trace).outcome = "returned"
    /\ LoadReport(store.report).outcome = "returned"
    /\ LoadTrace([store EXCEPT !.report = <<>>].trace) = LoadTrace(store.trace)
    /\ LoadReport([store EXCEPT !.trace = <<>>].report) = LoadReport(store.report)

\* a returned run that stopped on the threshold in its first turn
C20_Witness ==
  /\ pc = "returned"
  /\ max_turns = 2
  /\ Len(PersistedTrace.turns) = 1
  /\ PersistedReport.run_id = RunId

\* ---------------------------------------------------------------- C17
\* C17: with REQUIRE_PROVIDER = true (in any letter case) an invocation whose
\* provider call fails, or for which no provider is configured, raises; in
\* permissive mode such an invocation returns the offline placeholder Message
\* and does not raise; and every invocation of a run finds the same mode.
Mandatory == env.REQUIRE_PROVIDER \in {"true", "True", "TRUE"}

NoAnswer(c) == c.generate \in {"fails", "not made"}

StageCalls(t, s) ==
  LET AtStage(c) == c.stage = s
  IN  SelectSeq(TurnCalls(t), AtStage)

\* C21: the stop condition is evaluated only after a full turn.  Every turn of
\* the trace holds the five main-pipeline invocations and, with debate
\* enabled, a debate (asks, answers, synthesis) at each of the four boundaries,
\* and ends with the Planner message; and no step that returns an invocation
\* other than the Planner's ends the loop, appends a turn or starts the next
\* turn, even when the Validator's confidence already meets the threshold.
C21_StopAfterFullTurn ==
  /\ [](\A i \in 1..Len(trace.turns) :
          LET t == trace.turns[i].index
              m == trace.turns[i].messages
          IN  /\ \A k \in 1..5 : Len(StageCalls(t, 2 * k - 1)) = 1
              /\ debate_enabled =>
                   \A b \in 1..4 :
                     \A kind \in {"asks", "answers", "synthesis"} :
                       \E j \in 1..Len(StageCalls(t, 2 * b)) :
                         StageCalls(t, 2 * b)[j].kind = kind
              /\ m[Len(m)] = M5(t)
              /\ m[Len(m)].role = "followup")
  /\ [][/\ (pc \in Invocations \ {"followup"}) =>
             /\ trace'.turns = trace.turns
             /\ trace'.status = trace.status
             /\ turn_index' = turn_index
             /\ pc' \notin {"persist_trace", "persist_report", "returned"}
        /\ (trace'.turns # trace.turns \/ turn_index' # turn_index) =>
             /\ pc = "followup"
             /\ Len(trace'.turns) = Len(trace.turns) + 1]_vars

\* a returned run with debates and a budget of two turns that stopped after
\* its first turn: the Validator met the threshold, and the debate of the
\* fourth boundary and the Planner's invocation ran after it
C21_Witness ==
  /\ pc = "returned"
  /\ debate_enabled
  /\ max_turns = 2
  /\ consensus_threshold = DefaultThreshold
  /\ Len(trace.turns) = 1
  /\ M4(0).confidence >= consensus_threshold
  /\ Len(StageCalls(0, 8)) >= 3
  /\ Len(StageCalls(0, 9)) = 1

\* ---------------------------------------------------------------- C22
\* the content B's agent returned for the final synthesis of the debate at
\* boundary b of turn t: what _debate hands off
FinalSynthesis(t, b) ==
  LET d == StageCalls(t, 2 * b)
  IN  d[Len(d)].msg.content

\* the prompt of the main-pipeline invocation of stage k (2..5) of turn t, as
\* run builds it from the texts h[1..4] handed over at the four boundaries
InputFrom(t, k, h) ==
  CASE k = 2 -> CriticInput(h[1])
    [] k = 3 -> SynthInput(MainMessage(t, 1).content, h[2])
    [] k = 4 -> VerifyInput(h[3])
    [] k = 5 -> FollowupInput(<<trace.topic>>, MainMessage(t, 1).content, h[2], h[3],
                              MainMessage(t, 4).confidence, h[4])

\* the debates of turn t were given the upstream role's main-pipeline content
\* as context (it is quoted in the asks and synthesis prompts)
DebateContexts(t) ==
  \A j \in 1..Len(TurnCalls(t)) :
    LET c == TurnCalls(t)[j]
        b == c.stage \div 2
        upstream == MainMessage(t, b).content
    IN  /\ c.kind = "asks" =>
             c.prompt = BQPrompt(Boundaries[b].a_role, Boundaries[b].b_role,
                                 upstream)
        /\ c.kind = "synthesis" =>
             c.prompt = BSumPrompt(Boundaries[b].a_role, Boundaries[b].b_role,
                                   upstream, c.round,
                                   Stored(TurnCalls(t)[j - 1]).content)

\* the main-pipeline invocations 2..5 made so far in turn t were prompted with
\* the texts h
DownstreamInputs(t, h) ==
  \A k \in 2..5 :
    \A j \in 1..Len(StageCalls(t, 2 * k - 1)) :
      StageCalls(t, 2 * k - 1)[j].prompt = InputFrom(t, k, h)

\* the turns run has started
Started == 0..(Len(calls) - 1)

\* the boundaries of turn t whose debate has returned
Debated(t) == {b \in 1..4 : StageCalls(t, 2 * b + 1) # <<>>}

\* C22 as stated: the context of each debate is the content of M1, M2, M3, M4
\* respectively, and with debate enabled the prompt of the downstream
\* main-pipeline invocation is built from the handoff text of the boundary's
\* debate, not from the upstream content.
C22_HandoffOnly ==
  (debate_enabled /\ pc \notin {"start", "call_debate"}) =>
    \A t \in Started :
      /\ DebateContexts(t)
      /\ DownstreamInputs(t, [b \in 1..4 |->
                                IF b \in Debated(t) THEN FinalSynthesis(t, b)
                                ELSE <<>>])

\* C22, amended: the same, except that a boundary whose handoff text is empty
\* hands over the upstream role's main-pipeline content.
C22_HandoffOrUpstream ==
  (debate_enabled /\ pc \notin {"start", "call_debate"}) =>
    \A t \in Started :
      /\ DebateContexts(t)
      /\ DownstreamInputs(t, [b \in 1..4 |->
                                IF b \in Debated(t)
                                THEN IF FinalSynthesis(t, b) # <<>>
                                     THEN FinalSynthesis(t, b)
                                     ELSE MainMessage(t, b).content
                                ELSE <<>>])

\* a returned run with debates whose Challenger was prompted with a non-empty
\* handoff text that differs from the Extractor's content, in a turn whose
\* debates ran two rounds
C22_Witness ==
  /\ pc = "returned"
  /\ debate_enabled
  /\ FinalSynthesis(0, 1) # <<>>
  /\ FinalSynthesis(0, 1) # MainMessage(0, 1).content
  /\ StageCalls(0, 3)[1].prompt = CriticInput(FinalSynthesis(0, 1))
  /\ Len(StageCalls(0, 2)) = 6
  /\ StageCalls(0, 9)[1].prompt
       = InputFrom(0, 5, [b \in 1..4 |-> FinalSynthesis(0, b)])

\* ---------------------------------------------------------------- C23
\* the messages a running debate has collected and not yet returned to run
Pending ==
  IF pc \in {"debate_ask", "debate_answer", "debate_synthesis"}
  THEN Len(debate.debate_messages) ELSE 0

\* C23: every message returned by an agent invocation of a turn, main pipeline
\* or debate, is in the turn's message list exactly once: a turn of the trace
\* has as many messages as invocations were made in it, the k-th message is
\* the one the k-th invocation returned, the debate messages are all there
\* besides the five main ones, and while a turn is in progress the messages
\* collected so far are as many as the invocations that have returned.
C23_NoMessageDropped ==
  /\ \A i \in 1..Len(trace.turns) :
       LET m == trace.turns[i].messages
           cs == TurnCalls(trace.turns[i].index)
           IsDebate(c) == c.kind # "main"
       IN  /\ Len(m) = Len(cs)
           /\ \A k \in 1..Len(cs) : m[k] = Stored(cs[k])
           /\ Len(m) = 5 + Len(SelectSeq(cs, IsDebate))
  /\ pc \in Invocations =>
       Len(turn_messages) + Pending = Len(calls[Len(calls)])

\* a returned run of two turns whose first turn holds a two-round debate at
\* every boundary: 5 + 4 * 6 messages
C23_Witness ==
  /\ pc = "returned"
  /\ Len(trace.turns) = 2
  /\ Len(trace.turns[1].messages) = 29
  /\ Len(TurnCalls(0)) = 29

\* ---------------------------------------------------------------- C24
\* text sub occurs in text s
Within(sub, s) ==
  \E i \in 0..(Len(s) - Len(sub)) : SubSeq(s, i + 1, i + Len(sub)) = sub

\* the three invocations of a round, in order
RoundKinds == <<"asks", "answers", "synthesis">>

\* C24: in a debate between upstream role A and downstream role B the j-th
\* message belongs to round (j - 1) \div 3 + 1 and is, by its position in the
\* round, "B asks" (role B), "A answers" (role A) or "B synthesis" (role B),
\* tagged with that round number, so that the rounds run 1, 2, ..., r without
\* gaps; the prompt of A's answer holds B's questions of the same round, and
\* the prompt of B's synthesis holds the original context and A's answers of
\* the same round.
C24_RoundStructure ==
  LET msgs == debate.debate_messages
      cs == TurnCalls(0)
  IN  /\ Len(cs) = Len(msgs)
      /\ \A j \in 1..Len(msgs) :
           LET round == (j - 1) \div 3 + 1
               kind == RoundKinds[((j - 1) % 3) + 1]
               who == IF kind = "answers" THEN debate.a_role ELSE debate.b_role
               tag == Header(debate.a_role, debate.b_role, who, kind, round)
           IN  /\ msgs[j].role = who
               /\ SubSeq(msgs[j].content, 1, Len(tag)) = tag
               /\ cs[j].kind = kind
               /\ cs[j].round = round
               /\ kind = "answers" =>
                    /\ Within(cs[j - 1].msg.content, cs[j].prompt)
                    /\ Within(msgs[j - 1].content, cs[j].prompt)
               /\ kind = "synthesis" =>
                    /\ Within(debate.context, cs[j].prompt)
                    /\ Within(cs[j - 1].msg.content, cs[j].prompt)
                    /\ Within(msgs[j - 1].content, cs[j].prompt)
      /\ pc = "debate_returned" =>
           /\ debate_result.debate_messages = msgs
           /\ Len(msgs) % 3 = 0

\* a returned debate of three rounds on a context of several lines
C24_Witness ==
  /\ pc = "debate_returned"
  /\ Len(debate_result.debate_messages) = 9
  /\ Contains(debate.context, NL)
  /\ debate_result.debate_messages[9].role = debate.b_role
  /\ debate_result.debate_messages[8].role = debate.a_role

\* ---------------------------------------------------------------- C25
\* message m is what invocation c returned, but for one header line in front
\* of the content when c was made by a debate
AsReturned(m, c) ==
  /\ m.role = c.msg.role
  /\ m.citations = c.msg.citations
  /\ m.confidence = c.msg.confidence
  /\ c.kind = "main" => m.content = c.msg.content
  /\ c.kind # "main" =>
       /\ FirstIndex(m.content, NL) = 2
       /\ AfterFirstLine(m.content) = c.msg.content

\* C25: between the return of an invocation and the persisted trace the role,
\* the citations and the confidence of a message do not change, nor does the
\* content of a main-pipeline message; the content of a debate message is the
\* returned content with one header line in front.  This holds for the
\* messages the run has collected, for the turns of the Trace object and for
\* the trace read back from the store.
C25_MessagesImmutable ==
  /\ pc \in Invocations \ {"debate_ask", "debate_answer", "debate_synthesis"} =>
       \A j \in 1..Len(turn_messages) :
         AsReturned(turn_messages[j], calls[Len(calls)][j])
  /\ \A i \in 1..Len(trace.turns) :
       \A j \in 1..Len(trace.turns[i].messages) :
         AsReturned(trace.turns[i].messages[j], TurnCalls(trace.turns[i].index)[j])
  /\ store.trace # <<>> =>
       \A i \in 1..Len(PersistedTrace.turns) :
         \A j \in 1..Len(PersistedTrace.turns[i].messages) :
           AsReturned(PersistedTrace.turns[i].messages[j],
                      TurnCalls(PersistedTrace.turns[i].index)[j])

\* a persisted trace of two turns with debate messages, one of them a
\* synthesis whose returned content has two lines
C25_Witness ==
  /\ pc = "returned"
  /\ Len(PersistedTrace.turns) = 2
  /\ Len(PersistedTrace.turns[2].messages) > 5
  /\ TurnCalls(1)[4].kind = "synthesis"
  /\ Contains(TurnCalls(1)[4].msg.content, NL)
  /\ PersistedTrace.turns[2].messages[4].content # TurnCalls(1)[4].msg.content

\* ---------------------------------------------------------------- C26
\* C26: in the Trace object and in the persisted trace the turn at position i
\* (counted from 0) has index i; the loop variable grows by exactly one per
\* pipeline pass and each pass appends exactly one turn, carrying the loop
\* variable's value as its index.
C26_TurnIndex ==
  /\ [](/\ \A i \in 1..Len(trace.turns) : trace.turns[i].index = i - 1
        /\ store.trace # <<>> =>
             \A i \in 1..Len(PersistedTrace.turns) :
               PersistedTrace.turns[i].index = i - 1
        /\ pc \in Invocations => Len(trace.turns) = turn_index)
  /\ [][/\ turn_index' # turn_index => turn_index' = turn_index + 1
        /\ trace'.turns # trace.turns =>
             /\ Len(trace'.turns) = Len(trace.turns) + 1
             /\ trace'.turns[Len(trace'.turns)].index = turn_index
             /\ SubSeq(trace'.turns, 1, Len(trace.turns)) = trace.turns]_vars

\* a returned run whose persisted trace has the turns 0 and 1
C26_Witness ==
  /\ pc = "returned"
  /\ Len(PersistedTrace.turns) = 2
  /\ PersistedTrace.turns[1].index = 0
  /\ PersistedTrace.turns[2].index = 1
  /\ turn_index = 1

\* ---------------------------------------------------------------- C27
\* the messages the agent's invocations returned, as one turn of a trace
ReturnedTurn ==
  LET HasReturned(c) == c.result.outcome = "returned"
      cs == SelectSeq(agent, HasReturned)
  IN  Turn(0, [k \in 1..Len(cs) |-> cs[k].result.value[1]])

\* C27: every Message an invocation returns has its confidence within [0, 1]
\* on each path.  On the OpenAI-compatible path the answer's confidence is
\* clamped (a confidence out of range, NaN or not a number never makes the
\* invocation raise); on the Gemini path it is the fixed 0.75; the offline
\* placeholder's is within [0.55, 0.95].  The confidence of a report built
\* from such messages is within [0, 1] as well.
C27_ConfidenceRange ==
  /\ \A k \in 1..Len(agent) :
       LET c == agent[k]
           confidence == c.result.value[1].confidence
       IN  /\ c.result.outcome = "returned" => ValidConfidence(confidence)
           /\ c.generate = "ok" =>
                /\ c.result.outcome = "returned"
                /\ c.provider = "gemini" => confidence = ProviderConfidence
                /\ (c.provider # "gemini" /\ c.conf.kind = "number") =>
                     \/ confidence = c.conf.n
                     \/ c.conf.n < 0 /\ confidence = 0
                     \/ c.conf.n > 100 /\ confidence = 100
           /\ (NoAnswer(c) /\ c.result.outcome = "returned") =>
                (confidence >= 55 /\ confidence <= 95)
  /\ ReturnedTurn.messages # <<>> =>
       LET report == BuildReport([NewTrace(NoDatetime) EXCEPT
                                    !.turns = <<ReturnedTurn>>])
       IN  /\ ValidConfidence(report.confidence)
           /\ ValidTurn(ReturnedTurn)

\* three answered invocations on the OpenAI-compatible path: a confidence
\* above 1, one below 0, and NaN for the Validator
C27_Witness ==
  /\ Len(agent) = 3
  /\ agent[1].provider = "groq"
  /\ agent[1].generate = "ok" /\ agent[1].conf = Number(150)
  /\ agent[2].generate = "ok" /\ agent[2].conf = Number(-20)
  /\ agent[3].generate = "ok" /\ agent[3].conf = NaN
  /\ agent[3].role = "verifier"
  /\ agent[3].result.value[1].confidence = 100
  /\ agent[2].result.value[1].confidence = 0

\* ---------------------------------------------------------------- C28
\* the agent invocations that have returned since the run started
RECURSIVE Total(_)
Total(logs) == IF logs = <<>> THEN 0 ELSE Len(Head(logs)) + Total(Tail(logs))

\* the run call has ended
Ended == pc \in {"returned", "raised"}

\* C28: a run makes at most max_turns * (5 + 12 * debate_rounds) agent
\* invocations; as long as it has not ended it is at a statement that has a
\* next step (an invocation, which returns or raises, or the persistence of
\* an artifact); when it returns the trace has status
\* "complete"; and a run that left its loop, on the threshold or with its
\* turns exhausted, ends by returning, not with an error.
C28_Terminates ==
  /\ Total(calls) <= max_turns * (5 + 12 * DebateRounds(env))
  /\ \A t \in 1..Len(calls) : Len(calls[t]) <= 5 + 12 * DebateRounds(env)
  /\ ~Ended =>
       /\ pc \in Invocations \cup {"start", "persist_trace", "persist_report"}
       /\ pc = "debate_synthesis" => SynthesisReplies(provider) # {}
  /\ pc = "returned" => trace.status = "complete"
  /\ trace.status = "complete" => pc # "raised"

\* ---------------------------------------------------------------- C29
\* the messages of one turn are those the run's own invocations returned:
\* the Extractor was prompted with the run's topic (under the extractor
\* configuration it met), each later role with this turn's earlier messages
OwnTurn(i, t) ==
  LET r == runs[i]
      m == r.turns[t].messages
      Reply(role, prompt) == Message(role, MockReply(role, prompt))
  IN  /\ Len(m) = 5
      /\ m[1] = Reply("reader", ReaderPrompt(r.args.topic, r.used[t]))
      /\ m[2] = Reply("critic", CriticInput(m[1].content))
      /\ m[3] = Reply("synthesizer", SynthInput(m[1].content, m[2].content))
      /\ m[4] = Reply("verifier", VerifyInput(m[3].content))
      /\ m[5] = Reply("followup",
                      FollowupInput(r.args.topic, m[1].content, m[2].content,
                                    m[3].content, m[4].confidence, m[4].content))
      /\ \A k \in 1..5 : Within(r.args.topic, m[k].content)
      /\ \A j \in RunIds :
           runs[j].args.topic # r.args.topic =>
             \A k \in 1..5 : ~Within(runs[j].args.topic, m[k].content)

\* C29: two run calls in progress on one Orchestrator build independent
\* traces.  They are given different run_ids; the trace persisted under a
\* returned run's run_id is that run's Trace object, with its topic and its
\* turns, whatever the other run has done; every message of it was returned
\* by an invocation of that run for that run's topic; and the report under
\* the run_id is the one built from that trace.
C29_IndependentTraces ==
  /\ \A i \in RunIds : \A j \in RunIds :
       (i # j /\ runs[i].run_id # "") => runs[i].run_id # runs[j].run_id
  /\ \A i \in RunIds :
       runs[i].pc = "returned" =>
         LET files == data_root[runs[i].run_id]
             t == RunTrace(runs[i], runs[i].turns)
         IN  /\ LoadTrace(files.trace) = Returned(t)
             /\ LoadReport(files.report) = Returned(BuildReport(t))
             /\ \A n \in 1..Len(t.turns) : OwnTurn(i, n)
  /\ \A i \in RunIds :
       runs[i].pc # "returned" =>
         (runs[i].run_id = "" \/ data_root[runs[i].run_id] = NoFiles)

\* two returned runs on different topics whose invocations alternated: the
\* second started before the first had returned, and both made two turns
C29_Witness ==
  /\ runs[1].pc = "returned"
  /\ runs[2].pc = "returned"
  /\ runs[1].args.topic # runs[2].args.topic
  /\ runs[1].after = {}
  /\ runs[2].after = {}
  /\ Len(runs[1].turns) = 2
  /\ Len(runs[2].turns) = 2
  /\ LoadTrace(data_root[runs[1].run_id].trace).value[1].topic = runs[1].args.topic
  /\ LoadTrace(data_root[runs[2].run_id].trace).value[1].topic = runs[2].args.topic

\* ---------------------------------------------------------------- C30
\* where a section title stands in a prompt, 0 when it is not there
Position(text, title) ==
  IF \E i \in 1..Len(text) : text[i] = title
  THEN CHOOSE i \in 1..Len(text) :
         text[i] = title /\ \A j \in 1..(i - 1) : text[j] # title
  ELSE 0

\* the knowledge entries quoted in a prompt
Quoted(text) ==
  {i \in 1..Len(text) :
     \E n \in 1..Len(self_reader.knowledge_base), e \in 1..Len(self_reader.knowledge_base) :
        text[i] = "Document " \o ToString(n) \o ": " \o self_reader.knowledge_base[e].source}

\* the documents the retriever returns for a prompt, none without a retriever
Docs(prompt) ==
  IF self_reader.retriever = "" THEN <<>>
  ELSE GetRelevantDocuments(self_reader.retriever, prompt, self_reader.bm25_k)

\* what the Extractor does apart from where it puts the augmentation: the
\* prompt goes through unmodified without a source, the knowledge section
\* quotes the first KbLimit entries at most and stands before the section of
\* the chunks, every chunk retrieved for the caller's prompt is quoted
C30_Sections ==
  \A i \in 1..Len(agent) :
    LET c == agent[i]
        kb == Position(c.sent, "--- Extracted Knowledge Base ---")
        chunks == Position(c.sent, "--- Retrieved Document Chunks ---")
        docs == Docs(c.prompt)
    IN  /\ (self_reader.knowledge_base = <<>> /\ docs = <<>>) => c.sent = c.prompt
        /\ (kb > 0) = (self_reader.knowledge_base # <<>>)
        /\ (chunks > 0) = (docs # <<>>)
        /\ (kb > 0 /\ chunks > 0) => kb < chunks
        /\ Cardinality(Quoted(c.sent)) <= KbLimit
        /\ \A q \in 1..Len(c.queries) : c.queries[q] = c.prompt
        /\ \A d \in 1..Len(docs) :
             \E j \in 1..Len(c.sent) :
                j > chunks
                /\ c.sent[j] = "[SOURCE: " \o self_reader.retriever \o " | CHUNK: "
                               \o docs[d] \o "] " \o docs[d]
        /\ c.result.outcome = "returned"
        /\ Within(c.sent, c.result.value[1].content)

\* C30: the Extractor's send passes the caller's prompt to the provider
\* unmodified when it has neither a knowledge base nor a retriever, or the
\* retriever returns no documents; otherwise the augmentation is placed
\* before the caller's prompt, with the knowledge section (at most the first
\* 3 entries) before the section of the retrieved chunks, and the retriever
\* is queried with the caller's original prompt.
C30_AugmentationBeforePrompt ==
  /\ C30_Sections
  /\ \A i \in 1..Len(agent) :
       LET c == agent[i]
           n == Len(c.sent) - Len(c.prompt)
       IN  (self_reader.knowledge_base # <<>> \/ Docs(c.prompt) # <<>>) =>
             /\ n > 0
             /\ SubSeq(c.sent, n + 1, Len(c.sent)) = c.prompt
             /\ Position(c.sent, "--- Extracted Knowledge Base ---") <= n
             /\ Position(c.sent, "--- Retrieved Document Chunks ---") <= n

\* what the code does instead: the augmentation follows the caller's prompt
C30_AugmentationAfterPrompt ==
  \A i \in 1..Len(agent) :
    LET c == agent[i]
    IN  (self_reader.knowledge_base # <<>> \/ Docs(c.prompt) # <<>>) =>
          /\ Len(c.sent) > Len(c.prompt)
          /\ SubSeq(c.sent, 1, Len(c.prompt)) = c.prompt
          /\ Position(c.sent, "--- Extracted Knowledge Base ---") \notin 1..Len(c.prompt)
          /\ Position(c.sent, "--- Retrieved Document Chunks ---") \notin 1..Len(c.prompt)

\* a knowledge base of more than KbLimit entries and two retrieved chunks went
\* into a prompt
C30_Witness ==
  /\ Len(self_reader.knowledge_base) > KbLimit
  /\ \E i \in 1..Len(agent) :
       /\ Len(Docs(agent[i].prompt)) = 2
       /\ Docs(agent[i].prompt)[1] = "f2"
       /\ agent[i].result.outcome = "returned"

\* ---------------------------------------------------------------- C31
\* the generate call goes through _generate_openai_compatible
OpenAICompatible == client.provider # "gemini"

\* C31 (as claimed): _generate_openai_compatible issues at most
\* max_retries + 1 requests whatever the transient statuses and network
\* errors, both kinds counting in one attempt counter; it ends returned or
\* raised; every sleep between two attempts is at most 15 seconds.
C31_BoundedRetry ==
  OpenAICompatible =>
    /\ client.requests <= client.max_retries + 1
    /\ client.pc = "post" =>
         client.attempt = client.transient + client.network
    /\ client.pc \in {"post", "returned", "raised"}
    /\ client.slept <= SleepCap
    /\ client.requests > 1 => client.waited <= SleepCap

\* C31 (amended): the requests are at most max(max_retries, 0) + 1, every
\* failed request of either kind counts in the one attempt counter, the call
\* can make no request once it made that many, every backoff sleep is at most
\* 15 seconds, and the rate-limit guard adds at most LLM_MIN_INTERVAL_S.
C31_BoundedRetryFromZero ==
  OpenAICompatible =>
    /\ client.requests
         <= (IF client.max_retries > 0 THEN client.max_retries ELSE 0) + 1
    /\ client.pc = "post" =>
         /\ client.attempt = client.transient + client.network
         /\ client.attempt = client.requests
         /\ client.requests <= client.max_retries \/ client.requests = 0
    /\ client.pc \in {"post", "returned", "raised"}
    /\ client.slept <= SleepCap
    /\ client.waited <= client.min_interval
    /\ client.min_interval = 0 => client.waited = 0

\* a call raised at its last allowed request after a transient status and a
\* network error, its last backoff sleep having been cut to the cap
C31_Witness ==
  /\ OpenAICompatible
  /\ client.max_retries = MaxRetries
  /\ client.pc = "raised"
  /\ client.requests = MaxRetries + 1
  /\ client.transient > 0 /\ client.network > 0
  /\ client.slept = SleepCap

\* ---------------------------------------------------------------- C32
\* every model candidate got a request
AllCandidatesTried == client.posted = 1..Len(client.candidates)

\* C32: _generate_gemini fails only after every model candidate of its
\* fallback list was attempted: whether a candidate gave up on a 400/404, on
\* transient statuses exhausting max_retries or on network errors exhausting
\* max_retries, the call raises only when all candidates have failed.
C32_AllCandidatesFail ==
  (client.provider = "gemini" /\ client.pc = "raised"
   /\ client.cause \in {"not found", "transient", "network"}) =>
     /\ AllCandidatesTried
     /\ client.exception = "RuntimeError"

\* what holds: a candidate that gave up on a 400/404 or on network errors is
\* followed by the next one, and RuntimeError is raised after the last one only
C32_FallbackUnlessStatus ==
  (client.provider = "gemini" /\ client.pc = "raised") =>
     /\ client.cause \in {"not found", "network"} =>
          AllCandidatesTried /\ client.exception = "RuntimeError"
     /\ client.exception = "RuntimeError" => AllCandidatesTried
     /\ client.cause = "transient" => client.exception = "HTTPStatusError"

\* ---------------------------------------------------------------- C33
\* the retrievals made: the calls of an Extractor that has a retriever
Retrievals == {i \in 1..Len(agent) : agent[i].queries # <<>>}

\* the chunks returned are at most k chunks of the retriever, none twice, in
\* the order of non-increasing score, and none for a query without words
TopK(c) ==
  LET words == Words(c.queries[1])
  IN  /\ Len(c.docs) <= self_reader.bm25_k
      /\ \A d \in 1..Len(c.docs) :
           \E j \in 1..Len(PdfChunks(self_reader.retriever)) :
              PdfChunks(self_reader.retriever)[j] = c.docs[d]
      /\ \A d, e \in 1..Len(c.docs) :
           d < e => /\ c.docs[d] # c.docs[e]
                    /\ Score(c.docs[d], words) >= Score(c.docs[e], words)
      /\ words = {} => c.docs = <<>>

\* some chunk of the retriever holds a word of the query
SomeRelevant(c) ==
  \E j \in 1..Len(PdfChunks(self_reader.retriever)) :
     Score(PdfChunks(self_reader.retriever)[j], Words(c.queries[1])) > 0

Rounds == stream.check_count + stream.undecoded

\* the terminal events sent
Terminal ==
  {i \in 1..Len(stream.events) : stream.events[i].type \in {"complete", "error"}}

\* C34: event_generator always terminates: whatever the states of the trace
\* file (missing, unparsable, valid) it performs at most max_checks (600)
\* polling iterations and ends with exactly one terminal event, "complete" or
\* "error".
C34_BoundedPolling ==
  /\ Rounds <= MaxChecks
  /\ Terminal \subseteq {Len(stream.events)}
  /\ (stream.pc = "ended") = (Terminal # {})

\* what holds: the rounds that loaded the file are at most max_checks, a
\* round that could not decode it is not counted, and the generator ends
\* with one terminal event
C34_CountedRounds ==
  /\ stream.check_count <= MaxChecks
  /\ Terminal \subseteq {Len(stream.events)}
  /\ (stream.pc = "ended") = (Terminal # {})

\* ---------------------------------------------------------------- C35
\* the messages of a trace, turn after turn
RECURSIVE TraceMessages(_)
TraceMessages(turns) ==
  IF turns = <<>> THEN <<>>
  ELSE Head(turns).messages \o TraceMessages(Tail(turns))

\* the stream watched, from its start to its end, the file _persist_trace
\* wrote for a complete trace
WatchedComplete ==
  /\ stream.pc = "ended"
  /\ stream.steady
  /\ store.trace = <<JsonDump(trace, TraceFields)>>
  /\ trace.status = "complete"

\* C35: for a run whose trace was persisted with status "complete" the stream
\* sends one "message" event per message of the trace, in trace order, and
\* then a "complete" event that reports successful completion; it does not
\* end on the monitoring timeout.
C35_CompleteRunStreamed ==
  WatchedComplete =>
    LET ms == TraceMessages(trace.turns)
        ev == stream.events
    IN  /\ Len(ev) = Len(ms) + 2
        /\ ev[1].type = "init"
        /\ \A k \in 1..Len(ms) :
             /\ ev[k + 1].type = "message"
             /\ ev[k + 1].role = ms[k].role
             /\ ev[k + 1].count = k - 1
        /\ ev[Len(ev)].type = "complete"
        /\ ev[Len(ev)].message = "Run completed successfully"

\* what the stream does instead: "init", no "message" event, and after
\* max_checks rounds "complete" with "Monitoring timeout"
C35_EndsOnTimeout ==
  WatchedComplete =>
    /\ stream.check_count = MaxChecks
    /\ Len(stream.events) = 2
    /\ stream.events[1].type = "init"
    /\ stream.events[2] = SseUpdate("complete", "Monitoring timeout", "", <<>>, 0)

\* ---------------------------------------------------------------- C36
\* the run left its loop before its turn budget, and its report is persisted
StoppedEarly == store.report # <<>> /\ Len(PersistedTrace.turns) < max_turns

\* C36: if a run stopped early (its trace has fewer turns than max_turns), the
\* confidence stored in its persisted report is at least consensus_threshold,
\* with debate disabled and with debate enabled.
C36_EarlyStopConfidence ==
  StoppedEarly => PersistedReport.confidence >= consensus_threshold

\* what holds: the confidence of the last turn's main-pipeline verifier
\* message is at least the threshold, and without debate it is the report's
C36_EarlyStopVerifier ==
  StoppedEarly =>
    LET last_turn == PersistedTrace.turns[Len(PersistedTrace.turns)]
    IN  /\ M4(last_turn.index).confidence >= consensus_threshold
        /\ ~debate_enabled => PersistedReport.confidence >= consensus_threshold

\* ---------------------------------------------------------------- C37
\* load_trace gives a trace with status "complete"
CompleteTraceLoadable ==
  /\ LoadTrace(store.trace).outcome = "returned"
  /\ LoadTrace(store.trace).value[1].status = "complete"

\* C37: whenever a trace with status "complete" is loadable for a run_id and
\* the run call that wrote it has ended (returned or raised), the report of
\* the same run_id is loadable too: the store never ends up with a complete
\* trace without its report.
C37_ReportWithTrace ==
  (pc \in {"returned", "raised"} /\ CompleteTraceLoadable) =>
    LoadReport(store.report).outcome = "returned"

\* what holds: the report of a run that returned is loadable, and a run that
\* raised after it wrote its trace is a run without a turn
C37_ReportUnlessNoTurn ==
  /\ pc = "returned" =>
       CompleteTraceLoadable /\ LoadReport(store.report).outcome = "returned"
  /\ (pc = "raised" /\ CompleteTraceLoadable) =>
       /\ max_turns = 0
       /\ LoadTrace(store.trace).value[1].turns = <<>>
       /\ ~Exists(store.report)

\* ---------------------------------------------------------------- C38
\* the run is in its turn loop, or an invocation of a turn raised
InTurnLoop ==
  \/ pc \in Invocations \cup {"start"}
  \/ pc = "raised" /\ trace.status = "running"

HandedOver(t) ==
  [b \in 1..4 |->
     IF b \in Debated(t)
     THEN IF FinalSynthesis(t, b) # <<>> THEN FinalSynthesis(t, b)
          ELSE MainMessage(t, b).content
     ELSE <<>>]

\* the boundaries of turn t whose debate handed off an empty text
EmptyHandoffs(t) == {b \in Debated(t) : FinalSynthesis(t, b) = <<>>}

\* C39: when the handoff text of a debate is empty (B's final synthesis has
\* no content after its header line) the prompt of the downstream
\* main-pipeline stage is built from the upstream role's raw message content;
\* and run never starts a debate with max_rounds = 0, because
\* DEBATE_ROUNDS = 0 disables debate for the whole run.
C39_EmptyHandoffAndNoRounds ==
  /\ (debate_enabled /\ pc \notin {"start", "call_debate"}) =>
       \A t \in Started :
         \A b \in EmptyHandoffs(t) :
           LET d == StageCalls(t, 2 * b + 1)
           IN  /\ Len(d) = 1
               /\ d[1].prompt = InputFrom(t, b + 1, HandedOver(t))
               /\ b < 4 =>
                    d[1].prompt
                      = InputFrom(t, b + 1,
                                  [HandedOver(t) EXCEPT ![b] = MainMessage(t, b).content])
               /\ Within(MainMessage(t, b).content, d[1].prompt)
  /\ pc \in {"debate_ask", "debate_answer", "debate_synthesis"} =>
       debate.max_rounds >= 1
  /\ (pc # "start" /\ DebateRounds(env) = 0) =>
       /\ ~debate_enabled
       /\ \A t \in Started :
            \A j \in 1..Len(TurnCalls(t)) : TurnCalls(t)[j].kind = "main"

\* a returned run whose first debate handed off an empty text: the Challenger
\* was prompted with the Extractor's content
C39_Witness ==
  /\ pc = "returned"
  /\ debate_enabled
  /\ 1 \in EmptyHandoffs(0)
  /\ MainMessage(0, 1).content # <<>>
  /\ StageCalls(0, 3)[1].prompt = CriticInput(MainMessage(0, 1).content)

====
